---- MODULE Spec2Model ----
(***************************************************************************)
(* Model of the identifier normalisation, the fetch functions and the      *)
(* multi-source join of src/src/utils/censusDataUtils.js, and of the       *)
(* adoption-status classification of the report utilities                  *)
(* (src/unnamed/part_001) of poverty-pockets; of calculateTotals           *)
(* (src/unnamed/part_000), injectCensusDataIntoLayer and its popup content *)
(* function, performSearch, PolygonSelection, and the layer effect and     *)
(* handleSearch of ArcGISMap.                                              *)
(*                                                                         *)
(* JavaScript strings are sequences of one-character strings, so that      *)
(* String(), replace(/\D/g,''), startsWith, substring and the padding loop *)
(* are computed character by character.  JavaScript values are records     *)
(* [t, s, n]: t is the type tag, s the characters of a string, n the       *)
(* value of a number.                                                      *)
(***************************************************************************)
EXTENDS Integers, Sequences, FiniteSets, TLC

VARIABLES
    raw,            \* normalizers: the argument (geoid / zipCode)
    tractOut,       \* normalizeTractGeoid(raw)
    zipOut,         \* normalizeZipCode(raw)
    tractTwice,     \* normalizeTractGeoid(normalizeTractGeoid(raw))
    npc,            \* which normalizer call has returned
    kind,           \* "tract": fetchCensusTractsData, "zip": fetchZipcodeData
    responses,      \* [populationRes.data, acsRes.data, incomeRes.data]
    populationData, \* the three per-source mappings
    acsData,
    incomeData,
    mergedData,     \* the merge of the three, by raw identifier
    processedData,  \* what processCensusData returns
    jpc,            \* "fetched": responses received; "merged"; "done": returned
    apiKey,         \* process.env.REACT_APP_CENSUS_API_KEY
    answers,        \* what each of the three endpoints will answer
    requests,       \* each axios.get: "none", "pending", "fulfilled", "rejected"
    arrival,        \* the sources in the order their requests settled
    outcome,        \* the promise of the fetch function: "pending", "resolved", "rejected"
    tractId,        \* isTractInList: its arguments and what it returned
    commaSeparatedList,
    inList,
    povertyData,    \* processAdoptionStatus: the parsed CSV rows
    adoptionStatusMap, \* what processAdoptionStatus returned
    cpc,            \* "idle"; "args", "tested"; "rows", "classified", "reclassified"
    features,       \* calculateTotals: the features passed in
    totals,         \* its totals and counts objects after the loop
    counts,
    result,         \* what calculateTotals returned
    tpc,            \* "idle"; "features", "totalled"
    isZipCodeLayer, \* injectCensusDataIntoLayer: its arguments
    layerFields,    \* the names of layer.fields
    layerFeatures,  \* the attributes of the features layer.queryFeatures returns
    queryRejects,   \* whether layer.queryFeatures rejects
    hasPopupTemplate, \* whether layer.popupTemplate is set
    layerCensusData,  \* the censusData argument
    featureCensusData, \* layer.featureCensusData: the Map by raw identifier
    contentWrapped, \* whether lines 434-455 replaced popupTemplate.content
    returned,       \* the count injectCensusDataIntoLayer resolved to
    graphics,       \* the attributes of the graphics handed to the popup
    popup,          \* the last invocation of the content function
    popupCount,     \* how many invocations there were
    ipc,            \* "idle"; "layer", "injected"
    revision,       \* performSearch: which of its three revisions runs
    layerGiven,     \* whether geoJsonLayer is set
    valueIsString,  \* whether searchValue is a string
    queryAnswer,    \* what layer.queryFeatures answers
    viewHasPopup,   \* whether view.popup is set
    goToRejects,    \* whether view.goTo rejects
    popupThrows,    \* whether opening the popup throws
    queriesIssued,  \* how many queries performSearch issued
    viewMoved,      \* whether view.goTo was called
    popupOpened,    \* whether the popup was opened
    searchPromise,  \* the promise of performSearch: "pending", "resolved", "rejected"
    resolution,     \* what the promise resolved to
    spc,            \* "idle"; "called", "querying", "moving", "done"
    selectionMode,  \* PolygonSelection: its state selectionMode
    selectedFeatureIds,\* its state selectedFeatureIds
    isSelecting,    \* its state isSelecting
    pendingHit,     \* what the view.hitTest in flight will answer, or "none"
    originalRendererRef,\* originalRendererRef.current
    geoJsonLayer,   \* its prop geoJsonLayer: the number of the layer
    renderers,      \* the renderer of each layer created so far
    adoptionApplied, \* the layers the adoption-status renderer was applied to
    clicks,         \* how many map clicks there were
    oddClicks,      \* the identifiers clicked an odd number of times in selection mode since the last clear
    beforeHighlight,\* the renderer in effect before the first feature was highlighted
    selpc,          \* "idle"; "mounted", "unmounted"
    selectedLayer,  \* ArcGISMap: its state selectedLayer
    layersCreated,  \* how many layers the layer effect created; the last is in the map
    loadState,      \* of each layer: "loading", "loaded", "failed"
    geoJsonLayerRef,\* geoJsonLayerRef.current: a layer number, 0 for null
    layerLoaded,    \* its state layerLoaded
    dataPending,    \* the data fetched on mount that has not arrived
    lastSearch,     \* what the last handleSearch did
    searchCount,    \* how many searches were submitted
    mpc             \* "idle"; "mounted"

normVars == <<raw, tractOut, zipOut, tractTwice, npc>>
joinVars == <<kind, responses, populationData, acsData, incomeData, mergedData,
              processedData, jpc>>
fetchVars == <<apiKey, answers, requests, arrival, outcome>>
classVars == <<tractId, commaSeparatedList, inList, povertyData, adoptionStatusMap, cpc>>
reportVars == <<features, totals, counts, result, tpc>>
injectVars == <<isZipCodeLayer, layerFields, layerFeatures, queryRejects, hasPopupTemplate,
                layerCensusData, featureCensusData, contentWrapped, returned, graphics,
                popup, popupCount, ipc>>
searchVars == <<revision, layerGiven, valueIsString, queryAnswer, viewHasPopup,
                goToRejects, popupThrows, queriesIssued, viewMoved, popupOpened,
                searchPromise, resolution, spc>>
selectVars == <<selectionMode, selectedFeatureIds, isSelecting, pendingHit,
                originalRendererRef, geoJsonLayer, renderers, adoptionApplied, clicks,
                oddClicks, beforeHighlight, selpc>>
mapVars == <<selectedLayer, layersCreated, loadState, geoJsonLayerRef, layerLoaded,
             dataPending, lastSearch, searchCount, mpc>>
laterVars == <<reportVars, injectVars, searchVars, selectVars, mapVars>>
vars == <<normVars, joinVars, fetchVars, classVars, laterVars>>

\* what the steps of one part of the program leave alone
outsideNorm == <<joinVars, fetchVars, classVars, laterVars>>
outsideJoin == <<normVars, fetchVars, classVars, laterVars>>
outsideClass == <<normVars, joinVars, fetchVars, laterVars>>
earlierVars == <<normVars, joinVars, fetchVars, classVars>>
outsideReport == <<earlierVars, injectVars, searchVars, selectVars, mapVars>>
outsideInject == <<earlierVars, reportVars, searchVars, selectVars, mapVars>>
outsideSearch == <<earlierVars, reportVars, injectVars, selectVars, mapVars>>
outsideSelect == <<earlierVars, reportVars, injectVars, searchVars, mapVars>>
outsideMap == <<earlierVars, reportVars, injectVars, searchVars, selectVars>>

(***************************************************************************)
(* JavaScript values                                                       *)
(***************************************************************************)
Str(chars) == [t |-> "string", s |-> chars, n |-> 0]
Num(k) == [t |-> "number", s |-> <<>>, n |-> k]
NaN == [t |-> "NaN", s |-> <<>>, n |-> 0]
Null == [t |-> "null", s |-> <<>>, n |-> 0]
Undefined == [t |-> "undefined", s |-> <<>>, n |-> 0]

Digits == {"0", "1", "2", "3", "4", "5", "6", "7", "8", "9"}
DigitChars == <<"0", "1", "2", "3", "4", "5", "6", "7", "8", "9">>

\* !v : the values JavaScript treats as false (no boolean reaches this code)
Falsy(v) ==
    \/ v.t \in {"null", "undefined", "NaN"}
    \/ v.t = "string" /\ v.s = <<>>
    \/ v.t = "number" /\ v.n = 0

RECURSIVE NatString(_)
NatString(k) ==
    IF k < 10 THEN <<DigitChars[k + 1]>>
    ELSE NatString(k \div 10) \o <<DigitChars[(k % 10) + 1]>>

\* String(v), and the string conversion of the + operator
JSString(v) ==
    CASE v.t = "string" -> v.s
      [] v.t = "number" -> IF v.n < 0 THEN <<"-">> \o NatString(0 - v.n)
                                      ELSE NatString(v.n)
      [] v.t = "NaN" -> <<"N", "a", "N">>
      [] v.t = "null" -> <<"n", "u", "l", "l">>
      [] OTHER -> <<"u", "n", "d", "e", "f", "i", "n", "e", "d">>

\* s.replace(/\D/g, '')
StripNonDigits(s) == SelectSeq(s, LAMBDA c : c \in Digits)

\* s.startsWith(p)
StartsWith(s, p) == Len(s) >= Len(p) /\ SubSeq(s, 1, Len(p)) = p

\* while (s.length < w) s = '0' + s
RECURSIVE PadZeros(_, _)
PadZeros(s, w) == IF Len(s) < w THEN PadZeros(<<"0">> \o s, w) ELSE s

\* if (s.length > w) s = s.substring(0, w)
Truncate(s, w) == IF Len(s) > w THEN SubSeq(s, 1, w) ELSE s

TractWidth == 11
ZipWidth == 5
SentinelPrefix == <<"1", "4", "0", "0", "0">>
SentinelLength == 5

\* if (s.startsWith('14000')) s = s.substring(5)
StripSentinel(s) ==
    IF StartsWith(s, SentinelPrefix) THEN SubSeq(s, SentinelLength + 1, Len(s)) ELSE s

normalizeTractGeoid(geoid) ==
    IF Falsy(geoid) THEN Null
    ELSE Str(Truncate(PadZeros(StripSentinel(StripNonDigits(JSString(geoid))),
                               TractWidth), TractWidth))

normalizeZipCode(zipCode) ==
    IF Falsy(zipCode) THEN Null
    ELSE Str(Truncate(PadZeros(StripNonDigits(JSString(zipCode)), ZipWidth), ZipWidth))

(***************************************************************************)
(* JavaScript objects used as mappings.  An object is [order, at]: order   *)
(* is the sequence of its keys in insertion order, at maps each key to its *)
(* value.  Keys are strings (sequences of characters).                     *)
(***************************************************************************)
EmptyObject == [order |-> <<>>, at |-> <<>>]

Keys(o) == DOMAIN o.at

\* o[k] = v
Put(o, k, v) ==
    [order |-> IF k \in DOMAIN o.at THEN o.order ELSE Append(o.order, k),
     at |-> [x \in (DOMAIN o.at) \cup {k} |-> IF x = k THEN v ELSE o.at[x]]]

DigitValue(c) == CHOOSE d \in 0 .. 9 : DigitChars[d + 1] = c

\* a < b for digit strings of the same length
RECURSIVE DigitsLess(_, _)
DigitsLess(a, b) ==
    IF a = <<>> THEN FALSE
    ELSE IF a[1] # b[1] THEN DigitValue(a[1]) < DigitValue(b[1])
    ELSE DigitsLess(Tail(a), Tail(b))

\* a < b for canonical numeric strings
NumericLess(a, b) == Len(a) < Len(b) \/ (Len(a) = Len(b) /\ DigitsLess(a, b))

MaxArrayIndex == <<"4", "2", "9", "4", "9", "6", "7", "2", "9", "4">>

\* k is an array index: a canonical numeric string below 2^32 - 1
IsArrayIndex(k) ==
    /\ Len(k) >= 1
    /\ \A i \in 1 .. Len(k) : k[i] \in Digits
    /\ Len(k) = 1 \/ k[1] # "0"
    /\ ~NumericLess(MaxArrayIndex, k)

RECURSIVE SortIndexKeys(_)
SortIndexKeys(S) ==
    IF S = {} THEN <<>>
    ELSE LET m == CHOOSE x \in S : \A y \in S : x = y \/ NumericLess(x, y)
         IN  <<m>> \o SortIndexKeys(S \ {m})

\* Object.keys(o): the array-index keys in ascending numeric order, then the
\* other keys in insertion order
ObjectKeys(o) ==
    SortIndexKeys({k \in DOMAIN o.at : IsArrayIndex(k)})
        \o SelectSeq(o.order, LAMBDA k : ~IsArrayIndex(k))

\* a + b: concatenation when either operand is a string, else the sum, which
\* is NaN for the operands that reach it here (undefined)
JSAdd(a, b) ==
    IF a.t = "string" \/ b.t = "string" THEN Str(JSString(a) \o JSString(b)) ELSE NaN

\* {...a, ...b}
Spread(a, b) ==
    [f \in (DOMAIN a) \cup (DOMAIN b) |-> IF f \in DOMAIN b THEN b[f] ELSE a[f]]

(***************************************************************************)
(* The tabular source adapters (the three blocks of each fetch function).  *)
(* A response's data is [present, hdr, rows]: hdr is data[0], rows are     *)
(* data[1..]; present = FALSE is the empty array.                          *)
(***************************************************************************)
DataLength(d) == IF d.present THEN 1 + Len(d.rows) ELSE 0

\* hdr.indexOf(name): the 0-based index of the first match, or -1
IndexOf(hdr, name) ==
    IF \E i \in 1 .. Len(hdr) : hdr[i] = name
    THEN (CHOOSE i \in 1 .. Len(hdr) :
              hdr[i] = name /\ \A j \in 1 .. (i - 1) : hdr[j] # name) - 1
    ELSE 0 - 1

\* row[idx]
Cell(row, idx) == IF idx >= 0 /\ idx < Len(row) THEN Str(row[idx + 1]) ELSE Undefined

\* the fields each source extracts, by source number
SourceFields(src) ==
    CASE src = 1 -> {"P1_001N"}
      [] src = 2 -> {"DP03_0004PE", "DP02_0001E"}
      [] OTHER -> {"S1901_C01_012E"}

ZctaColumn == "zip code tabulation area"

\* const geoid = row[stateIdx] + row[countyIdx] + row[tractIdx];
\* const zipCode = row[zctaIdx];  used as a property key
RowKey(k, hdr, row) ==
    IF k = "tract"
    THEN JSString(JSAdd(JSAdd(Cell(row, IndexOf(hdr, "state")),
                              Cell(row, IndexOf(hdr, "county"))),
                        Cell(row, IndexOf(hdr, "tract"))))
    ELSE JSString(Cell(row, IndexOf(hdr, ZctaColumn)))

\* { P1_001N: row[p1001nIdx] } and its like
RowRecord(src, hdr, row) == [f \in SourceFields(src) |-> Cell(row, IndexOf(hdr, f))]

\* RowAccepted with the fault of not comparing the row's length with the
\* header's
RowAcceptedAnyLength(hdr, row) == Len(row) >= 0 /\ Len(hdr) >= 0

\* if (row && row.length === headers.length)
RowAccepted(hdr, row) == Len(row) = Len(hdr)

\* for (let i = 1; i < data.length; i++) { ... }
RECURSIVE AdaptRows(_, _, _, _, _, _)
AdaptRows(k, src, hdr, rows, i, acc) ==
    IF i > Len(rows) THEN acc
    ELSE AdaptRows(k, src, hdr, rows, i + 1,
                   IF RowAccepted(hdr, rows[i])
                   THEN Put(acc, RowKey(k, hdr, rows[i]), RowRecord(src, hdr, rows[i]))
                   ELSE acc)

\* if (res.data && res.data.length > 1) { ... }
Adapter(k, src, d) ==
    IF DataLength(d) > 1 THEN AdaptRows(k, src, d.hdr, d.rows, 1, EmptyObject)
    ELSE EmptyObject

(***************************************************************************)
(* The merge of the three mappings and processCensusData.                  *)
(***************************************************************************)
\* new Set([...a, ...b]): the elements in first-occurrence order
RECURSIVE Dedupe(_, _)
Dedupe(s, seen) ==
    IF s = <<>> THEN <<>>
    ELSE IF s[1] \in seen THEN Dedupe(Tail(s), seen)
    ELSE <<s[1]>> \o Dedupe(Tail(s), seen \cup {s[1]})

AllIds(pop, acs, inc) == Dedupe(ObjectKeys(pop) \o ObjectKeys(acs) \o ObjectKeys(inc), {})

\* populationData[geoid] || {}
RecordOrEmpty(o, g) == IF g \in DOMAIN o.at THEN o.at[g] ELSE <<>>

\* MergeRecord with the spreads in the opposite order: the earliest source wins
MergeRecordEarliestWins(pop, acs, inc, g) ==
    Spread(Spread(RecordOrEmpty(inc, g), RecordOrEmpty(acs, g)), RecordOrEmpty(pop, g))

\* { ...(populationData[geoid] || {}), ...(acsData[geoid] || {}),
\*   ...(incomeData[geoid] || {}) }
MergeRecord(pop, acs, inc, g) ==
    Spread(Spread(RecordOrEmpty(pop, g), RecordOrEmpty(acs, g)), RecordOrEmpty(inc, g))

RECURSIVE MergeEach(_, _, _, _, _)
MergeEach(pop, acs, inc, ids, acc) ==
    IF ids = <<>> THEN acc
    ELSE MergeEach(pop, acs, inc, Tail(ids),
                   Put(acc, ids[1], MergeRecord(pop, acs, inc, ids[1])))

MergeAll(pop, acs, inc) == MergeEach(pop, acs, inc, AllIds(pop, acs, inc), EmptyObject)

\* normalizeFunction(key)
Normalize(k, key) ==
    IF k = "tract" THEN normalizeTractGeoid(Str(key)) ELSE normalizeZipCode(Str(key))

\* The value stored under a key of the result: ref names the object (the key
\* of censusData whose record it is), rec is that record.
Reference(censusData, key) == [ref |-> key, rec |-> censusData.at[key]]

\* ProcessKey without its if (normalizedKey) guard
ProcessKeyUnguarded(k, censusData, key, processed) ==
    LET normalizedKey == Normalize(k, key)
        canon == Put(processed, JSString(normalizedKey), Reference(censusData, key))
    IN  IF normalizedKey # Str(key)
        THEN Put(canon, key, Reference(censusData, key))
        ELSE canon

\* the body of the forEach callback for one key
ProcessKey(k, censusData, key, processed) ==
    LET normalizedKey == Normalize(k, key)
    IN  IF ~Falsy(normalizedKey)
        THEN LET canon == Put(processed, JSString(normalizedKey), Reference(censusData, key))
             IN  IF normalizedKey # Str(key)
                 THEN Put(canon, key, Reference(censusData, key))
                 ELSE canon
        ELSE processed

RECURSIVE ProcessKeys(_, _, _, _)
ProcessKeys(k, censusData, keys, processed) ==
    IF keys = <<>> THEN processed
    ELSE ProcessKeys(k, censusData, Tail(keys),
                     ProcessKey(k, censusData, keys[1], processed))

processCensusData(censusData, k) ==
    ProcessKeys(k, censusData, ObjectKeys(censusData), EmptyObject)

(***************************************************************************)
(* Raw identifiers handed to the normalizers: every concatenation of at    *)
(* most MaxTokens tokens, a range of numbers and some longer ones, null    *)
(* and undefined.                                                          *)
(***************************************************************************)
MaxTokens == 4
MaxSmallNumber == 12

Tokens ==
    { SentinelPrefix,
      <<"U", "S">>,
      <<"0", "6", "0", "1", "3">>,
      <<"3", "5", "3", "0", "0", "1">>,
      <<"0">>,
      <<"9">>,
      <<" ">> }

RECURSIVE TokenStrings(_)
TokenStrings(k) ==
    IF k = 0 THEN {<<>>}
    ELSE LET shorter == TokenStrings(k - 1)
         IN  shorter \cup {s \o tok : s \in shorter, tok \in Tokens}

RawNumbers == (0 .. MaxSmallNumber) \cup {0 - 5, 14000, 94107, 353001, 1400007, 1001000100}

RawInputs ==
    {Str(s) : s \in TokenStrings(MaxTokens)} \cup {Num(k) : k \in RawNumbers}
        \cup {Null, Undefined}

\* the join is not running
JoinIdle ==
    /\ kind = "none"
    /\ responses = <<>>
    /\ populationData = EmptyObject
    /\ acsData = EmptyObject
    /\ incomeData = EmptyObject
    /\ mergedData = EmptyObject
    /\ processedData = EmptyObject
    /\ jpc = "idle"

\* calculateTotals is not being followed
ReportIdle ==
    /\ features = <<>>
    /\ totals = <<>>
    /\ counts = <<>>
    /\ result = <<>>
    /\ tpc = "idle"

\* injectCensusDataIntoLayer is not being followed
InjectIdle ==
    /\ isZipCodeLayer = FALSE
    /\ layerFields = {}
    /\ layerFeatures = <<>>
    /\ queryRejects = FALSE
    /\ hasPopupTemplate = FALSE
    /\ layerCensusData = EmptyObject
    /\ featureCensusData = EmptyObject
    /\ contentWrapped = FALSE
    /\ returned = 0
    /\ graphics = <<>>
    /\ popup = <<>>
    /\ popupCount = 0
    /\ ipc = "idle"

\* performSearch is not being followed
SearchIdle ==
    /\ revision = "none"
    /\ layerGiven = FALSE
    /\ valueIsString = FALSE
    /\ queryAnswer = [settles |-> "none", count |-> 0]
    /\ viewHasPopup = FALSE
    /\ goToRejects = FALSE
    /\ popupThrows = FALSE
    /\ queriesIssued = 0
    /\ viewMoved = FALSE
    /\ popupOpened = FALSE
    /\ searchPromise = "pending"
    /\ resolution = <<>>
    /\ spc = "idle"

\* PolygonSelection is not being followed
SelectIdle ==
    /\ selectionMode = FALSE
    /\ selectedFeatureIds = <<>>
    /\ isSelecting = FALSE
    /\ pendingHit = "none"
    /\ originalRendererRef = <<>>
    /\ geoJsonLayer = 0
    /\ renderers = <<>>
    /\ adoptionApplied = {}
    /\ clicks = 0
    /\ oddClicks = {}
    /\ beforeHighlight = <<>>
    /\ selpc = "idle"

\* ArcGISMap is not being followed
MapIdle ==
    /\ selectedLayer = "none"
    /\ layersCreated = 0
    /\ loadState = <<>>
    /\ geoJsonLayerRef = 0
    /\ layerLoaded = FALSE
    /\ dataPending = {}
    /\ lastSearch = [status |-> "none", queried |-> 0, current |-> 0,
                     currentLoaded |-> FALSE]
    /\ searchCount = 0
    /\ mpc = "idle"

\* the later parts other than the one being followed are idle
BesideReportIdle == InjectIdle /\ SearchIdle /\ SelectIdle /\ MapIdle
BesideInjectIdle == ReportIdle /\ SearchIdle /\ SelectIdle /\ MapIdle
BesideSearchIdle == ReportIdle /\ InjectIdle /\ SelectIdle /\ MapIdle
BesideSelectIdle == ReportIdle /\ InjectIdle /\ SearchIdle /\ MapIdle
BesideMapIdle == ReportIdle /\ InjectIdle /\ SearchIdle /\ SelectIdle

LaterIdle == ReportIdle /\ InjectIdle /\ SearchIdle /\ SelectIdle /\ MapIdle

\* no classification is being followed
ClassIdle ==
    /\ tractId = Undefined
    /\ commaSeparatedList = Undefined
    /\ inList = FALSE
    /\ povertyData = <<>>
    /\ adoptionStatusMap = EmptyObject
    /\ cpc = "idle"

\* no fetch function has been called
FetchIdle ==
    /\ apiKey = Undefined
    /\ answers = <<>>
    /\ requests = <<>>
    /\ arrival = <<>>
    /\ outcome = "pending"

\* no normalizer call is being followed
NormIdle ==
    /\ raw = Null
    /\ tractOut = Null
    /\ zipOut = Null
    /\ tractTwice = Null
    /\ npc = "idle"

NormInit ==
    /\ raw \in RawInputs
    /\ tractOut = Null
    /\ zipOut = Null
    /\ tractTwice = Null
    /\ npc = "input"
    /\ JoinIdle
    /\ FetchIdle
    /\ ClassIdle
    /\ LaterIdle

NormalizeTract ==
    /\ npc = "input"
    /\ tractOut' = normalizeTractGeoid(raw)
    /\ npc' = "tract"
    /\ UNCHANGED <<raw, zipOut, tractTwice, outsideNorm>>

NormalizeZip ==
    /\ npc = "input"
    /\ zipOut' = normalizeZipCode(raw)
    /\ npc' = "zip"
    /\ UNCHANGED <<raw, tractOut, tractTwice, outsideNorm>>

\* the result of one call handed to the function again
NormalizeTractAgain ==
    /\ npc = "tract"
    /\ tractTwice' = normalizeTractGeoid(tractOut)
    /\ npc' = "tract2"
    /\ UNCHANGED <<raw, tractOut, zipOut, outsideNorm>>

NormNext == NormalizeTract \/ NormalizeZip \/ NormalizeTractAgain

SpecNormalize == NormInit /\ [][NormNext]_vars

(***************************************************************************)
(* The responses of the three requests.  The header rows are those the     *)
(* Census API returns for the get= and for= parameters of each URL; the    *)
(* data rows are drawn from a few key cells (among them keys that collide  *)
(* once normalized, the empty key, and keys beginning with "14000"), one   *)
(* row that is a cell short and one that is a cell long.  At most MaxRows  *)
(* data rows are spread over the three responses.                          *)
(***************************************************************************)
MaxRows == 3

Header(k, src) ==
    (CASE src = 1 -> <<"NAME", "P1_001N">>
       [] src = 2 -> <<"NAME", "DP03_0004PE", "DP02_0001E">>
       [] OTHER -> <<"NAME", "S1901_C01_012E">>)
    \o (IF k = "tract" THEN <<"state", "county", "tract">> ELSE <<ZctaColumn>>)

Tract353001 == <<"3", "5", "3", "0", "0", "1">>

KeyCells(k) ==
    IF k = "tract"
    THEN { <<<<"0", "6">>, <<"0", "1", "3">>, Tract353001>>,
           <<<<"6">>, <<"0", "1", "3">>, Tract353001>>,
           <<<<>>, <<>>, <<>>>>,
           <<<<"1", "4">>, <<"0", "0", "0">>, Tract353001>>,
           <<<<"1", "4">>, <<"0", "0", "0">>, SentinelPrefix \o Tract353001>> }
    ELSE { <<<<"9", "4", "1", "0", "7">>>>,
           <<<<"9", "4", "1", "0", "7", "1">>>>,
           <<<<"5", "0", "1">>>>,
           <<<<>>>> }

ValueCells(src) ==
    CASE src = 1 -> {<<<<"1">>>>, <<<<"2">>>>}
      [] src = 2 -> {<<<<"5">>, <<"7">>>>}
      [] OTHER -> {<<<<"9">>>>}

NameCell == <<"T">>

WellShapedRows(k, src) == {<<NameCell>> \o v \o c : v \in ValueCells(src), c \in KeyCells(k)}

SampleKeyCells(k) ==
    IF k = "tract" THEN <<<<"0", "6">>, <<"0", "1", "3">>, Tract353001>>
    ELSE <<<<"9", "4", "1", "0", "7">>>>

SampleRow(k, src) ==
    <<NameCell>> \o (CHOOSE v \in ValueCells(src) : TRUE) \o SampleKeyCells(k)

\* a row that lost its last cell, and one with a cell too many
ShortRow(k, src) == SubSeq(SampleRow(k, src), 1, Len(SampleRow(k, src)) - 1)
LongRow(k, src) == Append(SampleRow(k, src), <<"x">>)

RowOptions(k, src) == WellShapedRows(k, src) \cup {ShortRow(k, src), LongRow(k, src)}

Response(k, src, rows) == [present |-> TRUE, hdr |-> Header(k, src), rows |-> rows]

JoinInit ==
    /\ kind \in {"tract", "zip"}
    /\ \E n1 \in 0 .. MaxRows : \E n2 \in 0 .. (MaxRows - n1) :
         \E n3 \in 0 .. (MaxRows - n1 - n2) :
           \E r1 \in [1 .. n1 -> RowOptions(kind, 1)] :
             \E r2 \in [1 .. n2 -> RowOptions(kind, 2)] :
               \E r3 \in [1 .. n3 -> RowOptions(kind, 3)] :
                 responses = <<Response(kind, 1, r1), Response(kind, 2, r2),
                               Response(kind, 3, r3)>>
    /\ populationData = EmptyObject
    /\ acsData = EmptyObject
    /\ incomeData = EmptyObject
    /\ mergedData = EmptyObject
    /\ processedData = EmptyObject
    /\ jpc = "fetched"
    /\ NormIdle
    /\ FetchIdle
    /\ ClassIdle
    /\ LaterIdle

\* everything after the await of either fetch function
JoinResponses(k) ==
    /\ kind = k
    /\ jpc = "fetched"
    /\ populationData' = Adapter(k, 1, responses[1])
    /\ acsData' = Adapter(k, 2, responses[2])
    /\ incomeData' = Adapter(k, 3, responses[3])
    /\ mergedData' = MergeAll(populationData', acsData', incomeData')
    /\ processedData' = processCensusData(mergedData', k)
    /\ jpc' = "done"
    /\ UNCHANGED <<kind, responses, outsideJoin>>

fetchCensusTractsData == JoinResponses("tract")

fetchZipcodeData == JoinResponses("zip")

Next == fetchCensusTractsData \/ fetchZipcodeData

Spec == JoinInit /\ [][Next]_vars

(***************************************************************************)
(* The merge block on its own (lines 189-204 and 325-340), applied to      *)
(* per-source mappings of arbitrary partial records: any subset of the     *)
(* field names, each source's values marked with the source.               *)
(***************************************************************************)
MergeKeyOrder ==
    << <<"0", "6", "0", "1", "3", "3", "5", "3", "0", "0", "1">>, <<"5", "0", "1">> >>

MergeFields == {"X", "Y"}

SourceMark(src) == Str(<<DigitChars[src + 1]>>)

PartialRecords(src) == {[f \in F |-> SourceMark(src)] : F \in SUBSET MergeFields}

SourceMappings(src) ==
    UNION { { [order |-> SelectSeq(MergeKeyOrder, LAMBDA k : k \in S), at |-> recs] :
                recs \in [S -> PartialRecords(src)] } :
            S \in SUBSET {MergeKeyOrder[i] : i \in 1 .. Len(MergeKeyOrder)} }

MergeInit ==
    /\ kind = "none"
    /\ responses = <<>>
    /\ populationData \in SourceMappings(1)
    /\ acsData \in SourceMappings(2)
    /\ incomeData \in SourceMappings(3)
    /\ mergedData = EmptyObject
    /\ processedData = EmptyObject
    /\ jpc = "sources"
    /\ NormIdle
    /\ FetchIdle
    /\ ClassIdle
    /\ LaterIdle

MergeDatasets ==
    /\ jpc = "sources"
    /\ mergedData' = MergeAll(populationData, acsData, incomeData)
    /\ jpc' = "merged"
    /\ UNCHANGED <<kind, responses, populationData, acsData, incomeData,
                   processedData, outsideJoin>>

MergeNext == MergeDatasets

SpecMerge == MergeInit /\ [][MergeNext]_vars

(***************************************************************************)
(* One call of a fetch function from its first line to its return (lines   *)
(* 73-229 and 234-359): the API-key guard, the three requests issued       *)
(* together, their settling in any order, the await of Promise.all, the    *)
(* adapters, the join, and the catch around all of it.  Each endpoint's    *)
(* answer is fixed beforehand: it rejects, or it answers a table: the      *)
(* expected header alone, with one row, with two rows, a header lacking    *)
(* key columns with a row of its width, or a table whose header row is     *)
(* null.                                                                   *)
(***************************************************************************)
Whitespace == {" ", "\t"}

\* s.trim()
RECURSIVE TrimStart(_)
TrimStart(s) == IF s # <<>> /\ s[1] \in Whitespace THEN TrimStart(Tail(s)) ELSE s

RECURSIVE TrimEnd(_)
TrimEnd(s) ==
    IF s # <<>> /\ s[Len(s)] \in Whitespace THEN TrimEnd(SubSeq(s, 1, Len(s) - 1)) ELSE s

Trim(s) == TrimEnd(TrimStart(s))

\* if (!apiKey || apiKey.trim() === '')
BlankKey(key) == Falsy(key) \/ Trim(key.s) = <<>>

ApiKeys == {Undefined, Str(<<>>), Str(<<" ", " ">>), Str(<<"k">>)}

\* the empty array the catch of a request puts in place of the data
EmptyData == [present |-> FALSE, hdr |-> <<>>, rows |-> <<>>, hdrIsNull |-> FALSE]

Table(hdr, rows, hdrIsNull) ==
    [present |-> TRUE, hdr |-> hdr, rows |-> rows, hdrIsNull |-> hdrIsNull]

KeyColumns(k) == IF k = "tract" THEN {"state", "county", "tract"} ELSE {ZctaColumn}

LastKeyColumn(k) == IF k = "tract" THEN "tract" ELSE ZctaColumn

HeaderWithout(k, src, missing) == SelectSeq(Header(k, src), LAMBDA c : c \notin missing)

SecondKeyCells(k) ==
    IF k = "tract" THEN <<<<"6">>, <<"0", "1", "3">>, Tract353001>>
    ELSE <<<<"9", "4", "1", "0", "7", "1">>>>

SecondRow(k, src) ==
    <<NameCell>> \o (CHOOSE v \in ValueCells(src) : TRUE) \o SecondKeyCells(k)

\* a row of a table that has no key column at all
RowWithoutKeys(src) == <<NameCell>> \o (CHOOSE v \in ValueCells(src) : TRUE)

Fulfils(d) == [rejects |-> FALSE, data |-> d]

Rejects == [rejects |-> TRUE, data |-> EmptyData]

FetchAnswers(k, src) ==
    { Rejects,
      Fulfils(Table(Header(k, src), <<>>, FALSE)),
      Fulfils(Table(Header(k, src), <<SampleRow(k, src)>>, FALSE)),
      Fulfils(Table(Header(k, src), <<SecondRow(k, src), LongRow(k, src)>>, FALSE)),
      Fulfils(Table(HeaderWithout(k, src, {LastKeyColumn(k)}),
                    <<ShortRow(k, src)>>, FALSE)),
      Fulfils(Table(HeaderWithout(k, src, KeyColumns(k)),
                    <<RowWithoutKeys(src)>>, FALSE)),
      Fulfils(Table(<<>>, <<SampleRow(k, src)>>, TRUE)) }

\* axios.get(url) of the earlier revision (lines 582-588): a rejection
\* stays a rejection
UncaughtRequest(answer) ==
    [state |-> IF answer.rejects THEN "rejected" ELSE "fulfilled",
     data |-> IF answer.rejects THEN EmptyData ELSE answer.data]

\* axios.get(url).catch(err => ({ data: [] }))
CaughtRequest(answer) ==
    [state |-> "fulfilled", data |-> IF answer.rejects THEN EmptyData ELSE answer.data]

\* a Promise.all that handed out the results in the order of their arrival
ResultSlotByArrival(src, settledBefore) == settledBefore + 1

\* Promise.all: the result of requests[i] is element i of its array
ResultSlot(src, settledBefore) == src

\* headers.indexOf(...) on a header row that is null throws a TypeError
AdapterThrows(d) == DataLength(d) > 1 /\ d.hdrIsNull

JoinThrows(resps) == \E src \in 1 .. 3 : AdapterThrows(resps[src])

\* a fetch function without its try/catch: the exception rejects its promise
RejectOnThrow == "rejected"

\* } catch (error) { ...; return {}; }
ReturnOnThrow == "resolved"

FetchInit ==
    /\ kind \in {"tract", "zip"}
    /\ apiKey \in ApiKeys
    /\ answers \in {<<a1, a2, a3>> : a1 \in FetchAnswers(kind, 1),
                                     a2 \in FetchAnswers(kind, 2),
                                     a3 \in FetchAnswers(kind, 3)}
    /\ requests = [src \in 1 .. 3 |-> "none"]
    /\ arrival = <<>>
    /\ outcome = "pending"
    /\ responses = <<>>
    /\ populationData = EmptyObject
    /\ acsData = EmptyObject
    /\ incomeData = EmptyObject
    /\ mergedData = EmptyObject
    /\ processedData = EmptyObject
    /\ jpc = "called"
    /\ NormIdle
    /\ ClassIdle
    /\ LaterIdle

\* lines 73-112: the guard, then the three axios.get calls of the array
CallFetch ==
    /\ jpc = "called"
    /\ IF BlankKey(apiKey)
       THEN /\ outcome' = "resolved"
            /\ processedData' = EmptyObject
            /\ jpc' = "done"
            /\ UNCHANGED <<requests, responses>>
       ELSE /\ requests' = [src \in 1 .. 3 |-> "pending"]
            /\ responses' = [src \in 1 .. 3 |-> EmptyData]
            /\ jpc' = "awaiting"
            /\ UNCHANGED <<outcome, processedData>>
    /\ UNCHANGED <<kind, populationData, acsData, incomeData, mergedData,
                   apiKey, answers, arrival, normVars, classVars,
                   laterVars>>

\* one request settles while the function waits at the await of line 114
RequestSettles ==
    /\ jpc = "awaiting"
    /\ \E src \in 1 .. 3 :
         /\ requests[src] = "pending"
         /\ LET r == CaughtRequest(answers[src])
            IN  /\ requests' = [requests EXCEPT ![src] = r.state]
                /\ responses' =
                       [responses EXCEPT ![ResultSlot(src, Len(arrival))] = r.data]
         /\ arrival' = Append(arrival, src)
    /\ UNCHANGED <<kind, populationData, acsData, incomeData, mergedData,
                   processedData, jpc, apiKey, answers, outcome, normVars,
                   classVars, laterVars>>

\* lines 114-228: Promise.all has settled; the adapters, the merge,
\* processCensusData, and the catch
ReturnJoin ==
    /\ jpc = "awaiting"
    /\ \A src \in 1 .. 3 : requests[src] \in {"fulfilled", "rejected"}
    /\ IF \E src \in 1 .. 3 : requests[src] = "rejected"
       THEN /\ outcome' = "resolved"
            /\ processedData' = EmptyObject
            /\ UNCHANGED <<populationData, acsData, incomeData, mergedData>>
       ELSE IF JoinThrows(responses)
       THEN /\ outcome' = ReturnOnThrow
            /\ processedData' = EmptyObject
            /\ UNCHANGED <<populationData, acsData, incomeData, mergedData>>
       ELSE /\ populationData' = Adapter(kind, 1, responses[1])
            /\ acsData' = Adapter(kind, 2, responses[2])
            /\ incomeData' = Adapter(kind, 3, responses[3])
            /\ mergedData' = MergeAll(populationData', acsData', incomeData')
            /\ processedData' = processCensusData(mergedData', kind)
            /\ outcome' = "resolved"
    /\ jpc' = "done"
    /\ UNCHANGED <<kind, responses, apiKey, answers, requests, arrival, normVars,
                   classVars, laterVars>>

FetchNext == CallFetch \/ RequestSettles \/ ReturnJoin

SpecFetch == FetchInit /\ [][FetchNext]_vars

(***************************************************************************)
(* The adoption-status classification of the report utility module         *)
(* (src/unnamed/part_001): isTractInList and processAdoptionStatus.  A CSV *)
(* row is a function from column names to cells; a cell is a string, or    *)
(* undefined when the row has no such column.                              *)
(***************************************************************************)
\* the capital letters of the status cells drawn below
UpperCase == <<"A", "D", "N", "O", "P", "T", "E">>
LowerCase == <<"a", "d", "n", "o", "p", "t", "e">>

\* s.toLowerCase()
ToLowerCase(s) ==
    [i \in 1 .. Len(s) |->
        IF \E j \in 1 .. Len(UpperCase) : UpperCase[j] = s[i]
        THEN LowerCase[CHOOSE j \in 1 .. Len(UpperCase) : UpperCase[j] = s[i]]
        ELSE s[i]]

\* s.split(','): the stretches between the commas, empty ones included
RECURSIVE Split(_, _)
Split(s, current) ==
    IF s = <<>> THEN <<current>>
    ELSE IF s[1] = "," THEN <<current>> \o Split(Tail(s), <<>>)
    ELSE Split(Tail(s), Append(current, s[1]))

\* the entries of the list as written, not trimmed
EntriesUntrimmed(list) == Split(list, <<>>)

\* commaSeparatedList.split(',').map(tract => tract.trim())
Entries(list) == [i \in 1 .. Len(Split(list, <<>>)) |-> Trim(Split(list, <<>>)[i])]

isTractInList(id, list) ==
    IF Falsy(id) \/ Falsy(list) THEN FALSE
    ELSE LET standardizedTractId == Trim(JSString(id))
             tracts == Entries(list.s)
         IN  \E i \in 1 .. Len(tracts) : tracts[i] = standardizedTractId

\* a || b
OrElse(a, b) == IF Falsy(a) THEN b ELSE a

\* set.add(x) on a Set kept in insertion order
SetAdd(set, x) == IF \E i \in 1 .. Len(set) : set[i] = x THEN set ELSE Append(set, x)

SetHas(set, x) == \E i \in 1 .. Len(set) : set[i] = x

\* if (censusTract && censusTract.trim())
HasTract(row) == ~Falsy(row["Census Tract"]) /\ Trim(row["Census Tract"].s) # <<>>

\* row["Adoption Status"]?.toLowerCase() === "adopted"
StatusAdopted(row) ==
    /\ row["Adoption Status"].t = "string"
    /\ ToLowerCase(row["Adoption Status"].s) = <<"a", "d", "o", "p", "t", "e", "d">>

ListColumns == <<"Churches", "Non-Profits", "Local Business">>

\* the row lists its own identifier in one of its three list columns
ListedInOwnRow(row) ==
    \E c \in 1 .. 3 :
        isTractInList(Str(Trim(row["Census Tract"].s)),
                      OrElse(row[ListColumns[c]], Str(<<>>)))

\* a first pass in which each row settles its identifier anew: a row that
\* is not positive takes the identifier out of adoptedTracts again
RECURSIVE FirstPassLastRowWins(_, _, _)
FirstPassLastRowWins(rows, i, sets) ==
    IF i > Len(rows) THEN sets
    ELSE IF ~HasTract(rows[i]) THEN FirstPassLastRowWins(rows, i + 1, sets)
    ELSE LET id == Trim(rows[i]["Census Tract"].s)
             seen == SetAdd(sets.allCsvTracts, id)
             others == SelectSeq(sets.adoptedTracts, LAMBDA x : x # id)
             now == IF StatusAdopted(rows[i]) \/ ListedInOwnRow(rows[i])
                    THEN Append(others, id) ELSE others
         IN  FirstPassLastRowWins(rows, i + 1,
                                  [allCsvTracts |-> seen, adoptedTracts |-> now])

\* first pass (lines 113-141): [allCsvTracts, adoptedTracts] after rows i..
RECURSIVE FirstPass(_, _, _)
FirstPass(rows, i, sets) ==
    IF i > Len(rows) THEN sets
    ELSE IF ~HasTract(rows[i]) THEN FirstPass(rows, i + 1, sets)
    ELSE LET id == Trim(rows[i]["Census Tract"].s)
             seen == SetAdd(sets.allCsvTracts, id)
             byStatus == IF StatusAdopted(rows[i]) THEN SetAdd(sets.adoptedTracts, id)
                         ELSE sets.adoptedTracts
             byList == IF ListedInOwnRow(rows[i]) THEN SetAdd(byStatus, id)
                       ELSE byStatus
         IN  FirstPass(rows, i + 1, [allCsvTracts |-> seen, adoptedTracts |-> byList])

NotAvailable == Str(<<"N", "/", "A">>)

\* the entry with every list column copied as it is, "N/A" never put in
EntryVerbatim(row, isAdopted) ==
    [status |-> IF isAdopted THEN "adopted" ELSE "not_adopted",
     inCsv |-> TRUE,
     adoptedBy |-> IF isAdopted THEN OrElse(row["Adopted by"], Str(<<"U", "n", "k", "n", "o", "w", "n">>))
                   ELSE NotAvailable,
     churches |-> row["Churches"],
     nonProfits |-> row["Non-Profits"],
     localBusiness |-> row["Local Business"]]

\* the object literal of lines 152-163
Entry(row, isAdopted) ==
    [status |-> IF isAdopted THEN "adopted" ELSE "not_adopted",
     inCsv |-> TRUE,
     adoptedBy |-> IF isAdopted THEN OrElse(row["Adopted by"], Str(<<"U", "n", "k", "n", "o", "w", "n">>))
                   ELSE NotAvailable,
     churches |-> OrElse(row["Churches"], NotAvailable),
     nonProfits |-> OrElse(row["Non-Profits"], NotAvailable),
     localBusiness |-> OrElse(row["Local Business"], NotAvailable)]

\* second pass (lines 147-165)
RECURSIVE SecondPass(_, _, _, _)
SecondPass(rows, i, adopted, map) ==
    IF i > Len(rows) THEN map
    ELSE IF ~HasTract(rows[i]) THEN SecondPass(rows, i + 1, adopted, map)
    ELSE LET id == Trim(rows[i]["Census Tract"].s)
         IN  SecondPass(rows, i + 1, adopted,
                        Put(map, id, Entry(rows[i], SetHas(adopted, id))))

MetaKey == <<"_", "_", "m", "e", "t", "a">>

processAdoptionStatus(rows) ==
    LET sets == FirstPass(rows, 1, [allCsvTracts |-> <<>>, adoptedTracts |-> <<>>])
    IN  Put(SecondPass(rows, 1, sets.adoptedTracts, EmptyObject), MetaKey, sets)

(***************************************************************************)
(* Arguments of isTractInList: an identifier and a list written from at    *)
(* most MaxListTokens tokens (identifiers, a digit, commas and spaces), or *)
(* a missing argument.                                                     *)
(***************************************************************************)
MaxListTokens == 5

ListTokens == {<<"T", "1">>, <<"1">>, <<",">>, <<" ">>}

RECURSIVE ListStrings(_)
ListStrings(n) ==
    IF n = 0 THEN {<<>>}
    ELSE ListStrings(n - 1) \cup {s \o t : s \in ListStrings(n - 1), t \in ListTokens}

TractIdArguments ==
    {Str(<<"T", "1">>), Str(<<" ", "T", "1", " ">>), Str(<<"T", "1", "1">>),
     Str(<<>>), Str(<<" ">>), Undefined, Null}

ListArguments == {Str(s) : s \in ListStrings(MaxListTokens)} \cup {Undefined, Null}

InListInit ==
    /\ tractId \in TractIdArguments
    /\ commaSeparatedList \in ListArguments
    /\ inList = FALSE
    /\ povertyData = <<>>
    /\ adoptionStatusMap = EmptyObject
    /\ cpc = "args"
    /\ NormIdle
    /\ JoinIdle
    /\ FetchIdle
    /\ LaterIdle

TestTractInList ==
    /\ cpc = "args"
    /\ inList' = isTractInList(tractId, commaSeparatedList)
    /\ cpc' = "tested"
    /\ UNCHANGED <<tractId, commaSeparatedList, povertyData, adoptionStatusMap,
                   outsideClass>>

InListNext == TestTractInList

SpecInList == InListInit /\ [][InListNext]_vars

(***************************************************************************)
(* The rows handed to processAdoptionStatus: at most MaxCsvRows rows, each *)
(* an identifier cell (two spellings of one identifier, another            *)
(* identifier, the bookkeeping key, a blank cell, no cell), a status cell  *)
(* and one of three fillings of the remaining columns.                     *)
(***************************************************************************)
MaxCsvRows == 2

TractCells ==
    {Str(<<"T", "1">>), Str(<<" ", "T", "1">>), Str(<<"T", "2">>), Str(MetaKey),
     Str(<<" ">>), Undefined}

StatusCells ==
    {Str(<<"A", "d", "o", "p", "t", "e", "d">>),
     Str(<<"N", "o", "t", " ", "A", "d", "o", "p", "t", "e", "d">>),
     Str(<<"a", "d", "o", "p", "t", "e", "d", " ">>)}

\* <<Adopted by, Churches, Non-Profits, Local Business>>
OtherCells ==
    { <<Str(<<>>), Str(<<>>), Undefined, Str(<<>>)>>,
      <<Str(<<"O", "r", "g">>), Str(<<"x">>), Str(<<"T", "2", ",", " ", "T", "1">>), Str(<<>>)>>,
      <<Undefined, Str(<<>>), Str(<<>>), Str(<<"T", "1", "1">>)>> }

CsvRow(tract, status, others) ==
    ("Census Tract" :> tract) @@ ("Adoption Status" :> status)
        @@ ("Adopted by" :> others[1]) @@ ("Churches" :> others[2])
        @@ ("Non-Profits" :> others[3]) @@ ("Local Business" :> others[4])

CsvRows == {CsvRow(t, s, o) : t \in TractCells, s \in StatusCells, o \in OtherCells}

ClassifyInit ==
    /\ \E n \in 0 .. MaxCsvRows : povertyData \in [1 .. n -> CsvRows]
    /\ adoptionStatusMap = EmptyObject
    /\ tractId = Undefined
    /\ commaSeparatedList = Undefined
    /\ inList = FALSE
    /\ cpc = "rows"
    /\ NormIdle
    /\ JoinIdle
    /\ FetchIdle
    /\ LaterIdle

ClassifyRows ==
    /\ cpc = "rows"
    /\ adoptionStatusMap' = processAdoptionStatus(povertyData)
    /\ cpc' = "classified"
    /\ UNCHANGED <<tractId, commaSeparatedList, inList, povertyData, outsideClass>>

ClassifyNext == ClassifyRows

SpecClassify == ClassifyInit /\ [][ClassifyNext]_vars

(***************************************************************************)
(* The join (the merge block and processCensusData) and the classification *)
(* run twice on the same inputs.  A run is described by what it leaves in  *)
(* the objects it was handed and what it returns: the merge reads the      *)
(* three mappings through spreads into fresh objects (lines 194-200),      *)
(* processCensusData and processAdoptionStatus fill objects of their own   *)
(* and only read their argument.                                           *)
(***************************************************************************)
\* a merge that spread the other sources into the population records
\* themselves instead of into fresh objects
JoinRunInPlace(pop, acs, inc, k) ==
    [populationData |->
         [order |-> pop.order,
          at |-> [g \in Keys(pop) |-> MergeRecord(pop, acs, inc, g)]],
     acsData |-> acs,
     incomeData |-> inc,
     mergedData |-> MergeAll(pop, acs, inc),
     processedData |-> processCensusData(MergeAll(pop, acs, inc), k)]

\* lines 189-209: the three mappings after the run, mergedData, and the
\* value of processCensusData(mergedData)
JoinRun(pop, acs, inc, k) ==
    [populationData |-> pop,
     acsData |-> acs,
     incomeData |-> inc,
     mergedData |-> MergeAll(pop, acs, inc),
     processedData |-> processCensusData(MergeAll(pop, acs, inc), k)]

\* processAdoptionStatus: the rows after the run and the index returned
ClassificationRun(rows) ==
    [povertyData |-> rows, adoptionStatusMap |-> processAdoptionStatus(rows)]

RepeatJoinInit ==
    /\ kind \in {"tract", "zip"}
    /\ responses = <<>>
    /\ populationData \in SourceMappings(1)
    /\ acsData \in SourceMappings(2)
    /\ incomeData \in SourceMappings(3)
    /\ mergedData = EmptyObject
    /\ processedData = EmptyObject
    /\ jpc = "sources"
    /\ NormIdle
    /\ FetchIdle
    /\ ClassIdle
    /\ LaterIdle

RepeatInit == RepeatJoinInit \/ ClassifyInit

RunJoin ==
    /\ jpc \in {"sources", "joined"}
    /\ LET run == JoinRun(populationData, acsData, incomeData, kind)
       IN  /\ populationData' = run.populationData
           /\ acsData' = run.acsData
           /\ incomeData' = run.incomeData
           /\ mergedData' = run.mergedData
           /\ processedData' = run.processedData
    /\ jpc' = IF jpc = "sources" THEN "joined" ELSE "rejoined"
    /\ UNCHANGED <<kind, responses, outsideJoin>>

RunClassification ==
    /\ cpc \in {"rows", "classified"}
    /\ LET run == ClassificationRun(povertyData)
       IN  /\ povertyData' = run.povertyData
           /\ adoptionStatusMap' = run.adoptionStatusMap
    /\ cpc' = IF cpc = "rows" THEN "classified" ELSE "reclassified"
    /\ UNCHANGED <<tractId, commaSeparatedList, inList, outsideClass>>

RepeatNext == RunJoin \/ RunClassification

SpecRepeat == RepeatInit /\ [][RepeatNext]_vars

(***************************************************************************)
(* calculateTotals of the report utilities (src/unnamed/part_000, lines    *)
(* 98-190).  A feature is [hasAttributes, attributes]; attributes maps     *)
(* some of the four field names to values.  The numbers drawn are          *)
(* integers; strings are parsed as parseFloat parses them when no "." and  *)
(* no exponent follows the digits.                                         *)
(***************************************************************************)
sumFields == <<"P1_001N", "DP02_0001E">>
avgFields == <<"DP03_0004PE", "S1901_C01_012E">>

AggregateFields == {"P1_001N", "DP02_0001E", "DP03_0004PE", "S1901_C01_012E"}

\* the leading decimal digits of s
RECURSIVE DigitPrefix(_)
DigitPrefix(s) ==
    IF s # <<>> /\ s[1] \in Digits THEN <<s[1]>> \o DigitPrefix(Tail(s)) ELSE <<>>

RECURSIVE NatValue(_)
NatValue(ds) ==
    IF ds = <<>> THEN 0
    ELSE 10 * NatValue(SubSeq(ds, 1, Len(ds) - 1)) + DigitValue(ds[Len(ds)])

\* parseFloat(v): leading white space skipped, an optional sign, then the
\* longest run of digits; NaN when there is none
ParseFloat(v) ==
    IF v.t = "number" THEN v
    ELSE IF v.t # "string" THEN NaN
    ELSE LET t == TrimStart(v.s)
             negative == t # <<>> /\ t[1] = "-"
             unsigned == IF t # <<>> /\ t[1] \in {"-", "+"} THEN Tail(t) ELSE t
             ds == DigitPrefix(unsigned)
         IN  IF ds = <<>> THEN NaN
             ELSE Num(IF negative THEN 0 - NatValue(ds) ELSE NatValue(ds))

\* attrs[field]
Attr(feature, field) ==
    IF feature.hasAttributes /\ field \in DOMAIN feature.attributes
    THEN feature.attributes[field] ELSE Undefined

\* a loop body that took every value that is there as a number, an
\* unparseable one as zero
AddsToFieldAsZero(feature, field) ==
    Attr(feature, field).t \notin {"undefined", "null"}

\* if (attrs[field] !== undefined && attrs[field] !== null) {
\*   const value = parseFloat(attrs[field]); if (!isNaN(value)) { ... } }
AddsToField(feature, field) ==
    /\ Attr(feature, field).t \notin {"undefined", "null"}
    /\ ParseFloat(Attr(feature, field)).t = "number"

\* features.forEach(...): totals and counts after the features from i on
RECURSIVE Accumulate(_, _, _)
Accumulate(fs, i, acc) ==
    IF i > Len(fs) THEN acc
    ELSE Accumulate(fs, i + 1,
             [totals |-> [f \in AggregateFields |->
                              IF AddsToField(fs[i], f)
                              THEN acc.totals[f] + ParseFloat(Attr(fs[i], f)).n
                              ELSE acc.totals[f]],
              counts |-> [f \in AggregateFields |->
                              IF AddsToField(fs[i], f) THEN acc.counts[f] + 1
                              ELSE acc.counts[f]]])

ZeroTotals == [totals |-> [f \in AggregateFields |-> 0],
               counts |-> [f \in AggregateFields |-> 0]]

Label(field) ==
    CASE field = "P1_001N" -> "Total Population"
      [] field = "DP02_0001E" -> "Total Households"
      [] field = "DP03_0004PE" -> "Average Employment Rate"
      [] OTHER -> "Average Median Household Income"

\* (t / c).toFixed(1): the nearest tenth, a tie going away from zero
ToFixedOne(t, c) ==
    LET a == IF t < 0 THEN 0 - t ELSE t
        n == (20 * a + c) \div (2 * c)
    IN  (IF t < 0 THEN <<"-">> ELSE <<>>)
            \o NatString(n \div 10) \o <<".">> \o NatString(n % 10)

\* Math.round(t / c): the nearest integer, a tie going up
MathRound(t, c) == (2 * t + c) \div (2 * c)

\* the formatted value of an aggregate field
Formatted(field, t, c) ==
    CASE field \in {"P1_001N", "DP02_0001E"} -> Num(t)
      [] field = "DP03_0004PE" -> Str(ToFixedOne(t, c) \o <<"%">>)
      [] OTHER -> Str(<<"$">> \o JSString(Num(MathRound(t, c))))

\* a test of the total where the code tests the count
ReportedIfTotalNonZero(field, acc) == acc.totals[field] # 0

\* if (counts[field] > 0)
Reported(field, acc) == acc.counts[field] > 0

\* if (!features || features.length === 0) return {};
EarlyReturn == <<>>

ResultOf(acc, n) ==
    [l \in {"featureCount"} \cup {Label(f) : f \in {g \in AggregateFields : Reported(g, acc)}} |->
        IF l = "featureCount" THEN Num(n)
        ELSE LET f == CHOOSE g \in AggregateFields : Label(g) = l
             IN  Formatted(f, acc.totals[f], acc.counts[f])]

calculateTotals(fs) ==
    IF Len(fs) = 0
    THEN [totals |-> <<>>, counts |-> <<>>, result |-> EarlyReturn]
    ELSE LET acc == Accumulate(fs, 1, ZeroTotals)
         IN  [totals |-> acc.totals, counts |-> acc.counts,
              result |-> ResultOf(acc, Len(fs))]

MaxFeatures == 4

Attributes(p, h, e, m) ==
    [hasAttributes |-> TRUE,
     attributes |-> ("P1_001N" :> p) @@ ("DP02_0001E" :> h) @@ ("DP03_0004PE" :> e)
                        @@ ("S1901_C01_012E" :> m)]

NotANumber == Str(<<"N", "/", "A">>)

\* the features drawn: numbers, numeric strings, strings that do not parse,
\* null, a feature lacking two of the fields, and one without attributes
SampleFeatures ==
    { Attributes(Num(100), Num(1), Str(<<"5", "0">>), Num(10)),
      Attributes(Num(200), Null, NotANumber, Null),
      Attributes(NotANumber, Str(<<"x">>), Null, NotANumber),
      Attributes(Num(300), Num(2), Num(25), Str(<<"1", "2", "a", "b", "c">>)),
      Attributes(Str(<<>>), Null, Str(<<" ", "7">>), Null),
      Attributes(Str(<<"-", "5">>), NaN, Null, Num(7)),
      [hasAttributes |-> TRUE, attributes |-> ("P1_001N" :> Num(0)) @@ ("DP02_0001E" :> Null)],
      [hasAttributes |-> FALSE, attributes |-> <<>>] }

ReportInit ==
    /\ \E n \in 0 .. MaxFeatures : features \in [1 .. n -> SampleFeatures]
    /\ totals = <<>>
    /\ counts = <<>>
    /\ result = <<>>
    /\ tpc = "features"
    /\ NormIdle
    /\ JoinIdle
    /\ FetchIdle
    /\ ClassIdle
    /\ BesideReportIdle

CalculateTotals ==
    /\ tpc = "features"
    /\ LET run == calculateTotals(features)
       IN  /\ totals' = run.totals
           /\ counts' = run.counts
           /\ result' = run.result
    /\ tpc' = "totalled"
    /\ UNCHANGED <<features, outsideReport>>

ReportNext == CalculateTotals

SpecReport == ReportInit /\ [][ReportNext]_vars

(***************************************************************************)
(* injectCensusDataIntoLayer (censusDataUtils.js lines 368-463) and the    *)
(* popup content function it installs.  A feature is the function from its *)
(* attribute names to their values.  layer.featureCensusData is a Map: an  *)
(* object in insertion order whose keys are JavaScript values (the raw     *)
(* identifiers).  The content of a popup is what it shows for the four     *)
(* census fields.                                                          *)
(***************************************************************************)
zipCodeFields == <<"ZIP_CODE", "ZIP", "ZIPCODE", "ZCTA">>

CensusFields == {"P1_001N", "DP03_0004PE", "DP02_0001E", "S1901_C01_012E"}

\* lines 378-388: zipCodeFields.find(field => layerFields.includes(field))
\* || "ZIP_CODE" for a ZIP code layer, "GEOID" otherwise
IdField(zip, fields) ==
    IF ~zip THEN "GEOID"
    ELSE IF \E i \in 1 .. Len(zipCodeFields) : zipCodeFields[i] \in fields
    THEN zipCodeFields[CHOOSE i \in 1 .. Len(zipCodeFields) :
                           /\ zipCodeFields[i] \in fields
                           /\ \A j \in 1 .. (i - 1) : zipCodeFields[j] \notin fields]
    ELSE "ZIP_CODE"

\* attributes[field]
Attribute(attributes, field) ==
    IF field \in DOMAIN attributes THEN attributes[field] ELSE Undefined

\* a lookup of the dataset under the identifier as the feature spells it
DatasetKeyAsSpelled(zip, id) == JSString(id)

\* lines 413-415: the property of censusData that is read for the identifier
DatasetKey(zip, id) ==
    JSString(IF zip THEN normalizeZipCode(id) ELSE normalizeTractGeoid(id))

MapSet(map, key, value) == Put(map, key, value)

MapHas(map, key) == key \in Keys(map)

\* lines 409-422: the body of the forEach
MatchFeature(zip, census, idField, attributes, map) ==
    LET id == Attribute(attributes, idField)
    IN  IF Falsy(id) THEN map
        ELSE IF DatasetKey(zip, id) \in Keys(census)
        THEN MapSet(map, id, census.at[DatasetKey(zip, id)])
        ELSE map

RECURSIVE MatchFeatures(_, _, _, _, _)
MatchFeatures(zip, census, idField, feats, map) ==
    IF feats = <<>> THEN map
    ELSE MatchFeatures(zip, census, idField, Tail(feats),
                       MatchFeature(zip, census, idField, feats[1], map))

Injection(map, wrapped) ==
    [featureCensusData |-> map, contentWrapped |-> wrapped, returned |-> Len(map.order)]

\* lines 368-463: the Map left on the layer, whether the content function
\* was replaced, and the count returned
injectCensusDataIntoLayer(zip, fields, feats, rejects, hasTemplate, census) ==
    IF Keys(census) = {} THEN Injection(EmptyObject, FALSE)
    ELSE IF rejects THEN Injection(EmptyObject, FALSE)
    ELSE IF feats = <<>> THEN Injection(EmptyObject, FALSE)
    ELSE LET map == MatchFeatures(zip, census, IdField(zip, fields), feats, EmptyObject)
         IN  Injection(map, hasTemplate /\ Len(map.order) > 0)

\* the argument of a content function: the popup hands it { graphic }, the
\* click handler of the map (part_005 line 405) hands it the graphic itself
Argument(shape, attributes) == [shape |-> shape, attributes |-> attributes]

\* attrs.P1_001N || "N/A" and its like
ContentOf(attributes) ==
    [f \in CensusFields |-> OrElse(Attribute(attributes, f), NotAvailable)]

\* part_005 lines 191-215: const attrs = graphic.attributes || {}
generateCensusTractContent(arg) ==
    ContentOf(IF arg.shape = "graphic" THEN arg.attributes ELSE <<>>)

\* part_005 lines 218-267:
\* feature.graphic ? feature.graphic.attributes : feature.attributes || {}
generateZipCodeContent(arg) == ContentOf(arg.attributes)

originalContent(zip, arg) ==
    IF zip THEN generateZipCodeContent(arg) ELSE generateCensusTractContent(arg)

\* lines 434-455: the installed content function.  It yields whether it
\* threw, the content it returned and the attributes of the graphic after it.
WrappedContent(zip, idField, map, arg) ==
    LET content == originalContent(zip, arg)
        featureId == Attribute(arg.attributes, idField)
    IN  IF arg.shape = "graphic"
        THEN [threw |-> TRUE, content |-> <<>>, attributes |-> arg.attributes]
        ELSE [threw |-> FALSE,
              content |-> content,
              attributes |-> IF MapHas(map, featureId)
                             THEN Spread(arg.attributes, map.at[featureId].rec)
                             ELSE arg.attributes]

MaxLayerFeatures == 2
MaxPopups == 2

Geoid01001000100 == <<"0", "1", "0", "0", "1", "0", "0", "0", "1", "0", "0">>
Geoid06013353001 == <<"0", "6", "0", "1", "3">> \o Tract353001
Tract000100 == <<"0", "0", "0", "1", "0", "0">>
Zip00501 == <<"0", "0", "5", "0", "1">>
Zip94107 == <<"9", "4", "1", "0", "7">>

DataRow(src, value, keyCells) == <<NameCell>> \o value \o keyCells

\* what the fetch functions return for the rows given to the three sources
LayerDataset(k, pop, acs, inc) ==
    processCensusData(MergeAll(Adapter(k, 1, Response(k, 1, pop)),
                               Adapter(k, 2, Response(k, 2, acs)),
                               Adapter(k, 3, Response(k, 3, inc))), k)

TractRow(src, value, state) ==
    DataRow(src, value, <<state, <<"0", "0", "1">>, Tract000100>>)

\* the datasets drawn: the empty one, one joined from three sources, and one
\* with two rows whose keys collide once normalized
LayerDatasets(zip) ==
    IF zip
    THEN { EmptyObject,
           LayerDataset("zip", <<DataRow(1, <<<<"1">>>>, <<Zip00501>>),
                                 DataRow(1, <<<<"2">>>>, <<Zip94107>>)>>,
                        <<DataRow(2, <<<<"5">>, <<"7">>>>, <<Zip94107>>)>>, <<>>) }
    ELSE { EmptyObject,
           LayerDataset("tract", <<TractRow(1, <<<<"1">>>>, <<"0", "1">>)>>,
                        <<TractRow(2, <<<<"5">>, <<"7">>>>, <<"0", "1">>)>>,
                        <<DataRow(3, <<<<"9">>>>,
                                  <<<<"0", "6">>, <<"0", "1", "3">>, Tract353001>>)>>),
           LayerDataset("tract", <<TractRow(1, <<<<"1">>>>, <<"0", "1">>),
                                   TractRow(1, <<<<"2">>>>, <<"1">>)>>, <<>>, <<>>) }

\* the identifiers drawn: the canonical string, the number that lost its
\* leading zero, the prefixed or suffixed spelling, an identifier of another
\* area, one the dataset does not hold, the empty string and zero
LayerIdentifiers(zip) ==
    IF zip
    THEN { Str(Zip00501), Num(501), Str(Zip94107 \o <<"-", "1", "2", "3", "4">>),
           Str(<<"1", "2", "3", "4", "5">>), Str(<<>>) }
    ELSE { Str(Geoid01001000100), Num(1001000100),
           Str(SentinelPrefix \o <<"U", "S">> \o Geoid01001000100),
           Str(Geoid06013353001), Str(<<"9", "9">>), Str(<<>>), Num(0) }

\* the features drawn: one identifier under the default identifier field,
\* two under ZIP, a feature without identifier, and one that already has a
\* population
LayerFeatures(zip) ==
    { (IdField(zip, {}) :> id) : id \in LayerIdentifiers(zip) }
    \cup (IF zip THEN { ("ZIP" :> Num(501)), ("ZIP" :> Str(<<"1", "2", "3", "4", "5">>)) }
           ELSE {})
    \cup { ("NAME" :> Str(<<"T">>)) }
    \cup { (IdField(zip, {}) :> CHOOSE id \in LayerIdentifiers(zip) : ~Falsy(id))
               @@ ("P1_001N" :> Str(<<"7">>)) }

LayerFieldNames(zip) ==
    IF zip THEN {{}, {"ZIP"}, {"ZCTA", "ZIP_CODE"}} ELSE {{}}

InjectInit ==
    /\ isZipCodeLayer \in BOOLEAN
    /\ layerFields \in LayerFieldNames(isZipCodeLayer)
    /\ \E n \in 0 .. MaxLayerFeatures :
           layerFeatures \in [1 .. n -> LayerFeatures(isZipCodeLayer)]
    /\ queryRejects \in BOOLEAN
    /\ hasPopupTemplate \in BOOLEAN
    /\ layerCensusData \in LayerDatasets(isZipCodeLayer)
    /\ featureCensusData = EmptyObject
    /\ contentWrapped = FALSE
    /\ returned = 0
    /\ graphics = layerFeatures
    /\ popup = <<>>
    /\ popupCount = 0
    /\ ipc = "layer"
    /\ NormIdle
    /\ JoinIdle
    /\ FetchIdle
    /\ ClassIdle
    /\ BesideInjectIdle

\* injectCensusDataIntoLayer(layer, censusData, isZipCodeLayer) runs
InjectCensusData ==
    /\ ipc = "layer"
    /\ LET run == injectCensusDataIntoLayer(isZipCodeLayer, layerFields, layerFeatures,
                                            queryRejects, hasPopupTemplate, layerCensusData)
       IN  /\ featureCensusData' = run.featureCensusData
           /\ contentWrapped' = run.contentWrapped
           /\ returned' = run.returned
    /\ ipc' = "injected"
    /\ UNCHANGED <<isZipCodeLayer, layerFields, layerFeatures, queryRejects,
                   hasPopupTemplate, layerCensusData, graphics, popup, popupCount,
                   outsideInject>>

\* the installed content function is invoked for the graphic of feature i
OpenPopup(i, shape) ==
    /\ ipc = "injected"
    /\ contentWrapped
    /\ popupCount < MaxPopups
    /\ LET call == WrappedContent(isZipCodeLayer, IdField(isZipCodeLayer, layerFields),
                                  featureCensusData, Argument(shape, graphics[i]))
       IN  /\ popup' = [feature |-> i, shape |-> shape, threw |-> call.threw,
                        content |-> call.content, before |-> graphics[i]]
           /\ graphics' = [graphics EXCEPT ![i] = call.attributes]
    /\ popupCount' = popupCount + 1
    /\ UNCHANGED <<isZipCodeLayer, layerFields, layerFeatures, queryRejects,
                   hasPopupTemplate, layerCensusData, featureCensusData, contentWrapped,
                   returned, ipc, outsideInject>>

InjectNext ==
    \/ InjectCensusData
    \/ \E i \in 1 .. Len(graphics), shape \in {"feature", "graphic"} : OpenPopup(i, shape)

SpecInject == InjectInit /\ [][InjectNext]_vars

(***************************************************************************)
(* performSearch, in its three revisions: src/src/utils/searchUtil.js      *)
(* ("src"), src/poverty-pockets/src/utils/searchUtil.js ("pockets") and    *)
(* src/unnamed/part_002 ("buttons").  The function is followed from one    *)
(* await to the next: the query, then view.goTo, then the popup.           *)
(***************************************************************************)
Revisions == {"src", "pockets", "buttons"}

\* the answers of layer.queryFeatures: a rejection, a result without a
\* features array, or a result with so many features
MaxMatches == 2
Answer(settles, count) == [settles |-> settles, count |-> count]
QueryAnswers ==
    {Answer("rejects", 0), Answer("malformed", 0)}
        \cup {Answer("features", n) : n \in 0 .. MaxMatches}

Success == [success |-> TRUE]
Failure(message) == [success |-> FALSE, message |-> message]

LayerNotReady == "Layer is not ready."
NoMatch == "No matching result found."
NoPopup == "Popup is not available on the map view."
SearchError == "An error occurred during the search."

Resolved(value) == [promise |-> "resolved", resolution |-> value]

\* a performSearch without its try/catch: the exception rejects the promise
ThrownUncaught == [promise |-> "rejected", resolution |-> <<>>]

\* the catch of performSearch (searchUtil.js lines 48-51)
Thrown == Resolved(Failure(SearchError))

SearchInit ==
    /\ revision \in Revisions
    /\ layerGiven \in BOOLEAN
    /\ valueIsString \in BOOLEAN
    /\ queryAnswer \in QueryAnswers
    /\ viewHasPopup \in BOOLEAN
    /\ goToRejects \in BOOLEAN
    /\ popupThrows \in BOOLEAN
    /\ queriesIssued = 0
    /\ viewMoved = FALSE
    /\ popupOpened = FALSE
    /\ searchPromise = "pending"
    /\ resolution = <<>>
    /\ spc = "called"
    /\ NormIdle
    /\ JoinIdle
    /\ FetchIdle
    /\ ClassIdle
    /\ BesideSearchIdle

searchInputs == <<revision, layerGiven, valueIsString, queryAnswer, viewHasPopup,
                  goToRejects, popupThrows>>

\* the promise of performSearch settles
Settle(settlement) ==
    /\ searchPromise' = settlement.promise
    /\ resolution' = settlement.resolution
    /\ spc' = "done"

\* performSearch up to its first await: the guard on the layer, the where
\* clause (searchValue.replace in part_002 line 20) and layer.queryFeatures
StartSearch ==
    /\ spc = "called"
    /\ IF ~layerGiven
       THEN Settle(Resolved(Failure(LayerNotReady))) /\ UNCHANGED queriesIssued
       ELSE IF revision = "buttons" /\ ~valueIsString
       THEN Settle(Thrown) /\ UNCHANGED queriesIssued
       ELSE /\ queriesIssued' = queriesIssued + 1
            /\ spc' = "querying"
            /\ UNCHANGED <<searchPromise, resolution>>
    /\ UNCHANGED <<searchInputs, viewMoved, popupOpened, outsideSearch>>

\* layer.queryFeatures settles; performSearch runs on to view.goTo
QuerySettles ==
    /\ spc = "querying"
    /\ IF queryAnswer.settles \in {"rejects", "malformed"}
       THEN Settle(Thrown) /\ UNCHANGED viewMoved
       ELSE IF queryAnswer.count = 0
       THEN Settle(Resolved(Failure(NoMatch))) /\ UNCHANGED viewMoved
       ELSE IF revision = "pockets" /\ ~viewHasPopup
       THEN Settle(Resolved(Failure(NoPopup))) /\ UNCHANGED viewMoved
       ELSE /\ viewMoved' = TRUE
            /\ spc' = "moving"
            /\ UNCHANGED <<searchPromise, resolution>>
    /\ UNCHANGED <<searchInputs, queriesIssued, popupOpened, outsideSearch>>

\* whether the statements opening the popup throw: view.popup.open on a
\* view without popup, or the popup itself
OpeningThrows == ~viewHasPopup \/ popupThrows

\* view.goTo settles; performSearch opens the popup and returns.  In
\* part_002 the popup is set inside a try of its own (lines 60-103).
GoToSettles ==
    /\ spc = "moving"
    /\ IF goToRejects
       THEN Settle(Thrown) /\ UNCHANGED popupOpened
       ELSE IF OpeningThrows
       THEN /\ Settle(IF revision = "buttons" THEN Resolved(Success) ELSE Thrown)
            /\ UNCHANGED popupOpened
       ELSE Settle(Resolved(Success)) /\ popupOpened' = TRUE
    /\ UNCHANGED <<searchInputs, queriesIssued, viewMoved, outsideSearch>>

SearchNext == StartSearch \/ QuerySettles \/ GoToSettles

SpecSearch == SearchInit /\ [][SearchNext]_vars

(***************************************************************************)
(* PolygonSelection (src/src/components/PolygonSelection.js).  Layers are  *)
(* numbered in the order they were created; a renderer is [type, of, ids]: *)
(* the simple renderer a layer is created with (part_005 lines 284-296),   *)
(* the adoption-status renderer applied to a layer (part_005 line 334), or *)
(* the unique-value renderer highlighting the selected identifiers.  A     *)
(* handler is followed together with the render and the effects its state  *)
(* updates cause; handleMapClick is followed up to its await of            *)
(* view.hitTest and from there on.                                         *)
(***************************************************************************)
MaxClicks == 4
MaxLayers == 2

FeatureIds == {"a", "b"}

\* what a click can hit: a feature with an identifier, a feature without
\* one, nothing of the layer, or a hit test that rejects
ClickTargets == FeatureIds \cup {"noId", "miss", "rejects"}

SimpleRenderer(layer) == [type |-> "simple", of |-> layer, ids |-> <<>>]
AdoptionRenderer(layer) == [type |-> "adoption", of |-> layer, ids |-> <<>>]
HighlightRenderer(ids) == [type |-> "unique-value", of |-> 0, ids |-> ids]

\* prevIds.includes(featureId)
Includes(ids, id) == \E i \in 1 .. Len(ids) : ids[i] = id

\* lines 164-176: prevIds.filter(id => id !== featureId) or
\* [...prevIds, featureId]
Toggled(ids, id) ==
    IF Includes(ids, id) THEN SelectSeq(ids, LAMBDA x : x # id) ELSE Append(ids, id)

\* lines 115-118, 205-208: the renderer is restored if the ref is set
Restored(rends, layer, ref) ==
    IF ref = <<>> THEN rends ELSE [rends EXCEPT ![layer] = ref]

\* lines 30-103: updateHighlights
updateHighlights(rends, layer, ref, ids) ==
    IF ref = <<>> THEN rends
    ELSE IF ids = <<>> THEN [rends EXCEPT ![layer] = ref]
    ELSE [rends EXCEPT ![layer] = HighlightRenderer(ids)]

\* the identifiers clicked an odd number of times, after one more click
OddAfter(odd, id) == IF id \in odd THEN odd \ {id} ELSE odd \cup {id}

\* PolygonSelection has mounted on the first layer (part_005 lines
\* 513-519), before or after the adoption-status renderer was applied to
\* it: lines 21-27 saved the renderer, lines 106-108 ran updateHighlights
SelectInit ==
    /\ selectionMode = FALSE
    /\ selectedFeatureIds = <<>>
    /\ isSelecting = FALSE
    /\ pendingHit = "none"
    /\ geoJsonLayer = 1
    /\ \E r \in {SimpleRenderer(1), AdoptionRenderer(1)} :
           /\ renderers = <<r>>
           /\ originalRendererRef = r
           /\ adoptionApplied = IF r.type = "adoption" THEN {1} ELSE {}
    /\ clicks = 0
    /\ oddClicks = {}
    /\ beforeHighlight = <<>>
    /\ selpc = "mounted"
    /\ NormIdle
    /\ JoinIdle
    /\ FetchIdle
    /\ ClassIdle
    /\ BesideSelectIdle

\* lines 111-119 and the effect of lines 106-108 after them
ClearedSelection ==
    /\ selectedFeatureIds' = <<>>
    /\ renderers' = Restored(renderers, geoJsonLayer, originalRendererRef)
    /\ oddClicks' = {}

\* the Clear Selection button, shown in selection mode (lines 364-378)
ClearSelection ==
    /\ selpc = "mounted"
    /\ selectionMode
    /\ ClearedSelection
    /\ UNCHANGED <<selectionMode, isSelecting, pendingHit, originalRendererRef,
                   geoJsonLayer, adoptionApplied, clicks, beforeHighlight, selpc,
                   outsideSelect>>

\* lines 122-135
ToggleSelectionMode ==
    /\ selpc = "mounted"
    /\ selectionMode' = ~selectionMode
    /\ IF selectionMode THEN ClearedSelection
       ELSE UNCHANGED <<selectedFeatureIds, renderers, oddClicks>>
    /\ UNCHANGED <<isSelecting, pendingHit, originalRendererRef, geoJsonLayer,
                   adoptionApplied, clicks, beforeHighlight, selpc, outsideSelect>>

\* a click on the map: handleMapClick is registered in selection mode only
\* (lines 188-200) and returns at once while isSelecting (line 139);
\* otherwise it runs up to await view.hitTest(event)
MapClick(target) ==
    /\ selpc = "mounted"
    /\ clicks < MaxClicks
    /\ clicks' = clicks + 1
    /\ IF selectionMode /\ ~isSelecting
       THEN isSelecting' = TRUE /\ pendingHit' = target
       ELSE UNCHANGED <<isSelecting, pendingHit>>
    /\ oddClicks' = IF selectionMode /\ target \in FeatureIds
                    THEN OddAfter(oddClicks, target) ELSE oddClicks
    /\ UNCHANGED <<selectionMode, selectedFeatureIds, originalRendererRef, geoJsonLayer,
                   renderers, adoptionApplied, beforeHighlight, selpc, outsideSelect>>

\* view.hitTest settles: lines 147-184, then the effect of lines 106-108
\* if selectedFeatureIds was set
HitTestSettles ==
    /\ selpc = "mounted"
    /\ pendingHit # "none"
    /\ LET ids == IF pendingHit \in FeatureIds
                  THEN Toggled(selectedFeatureIds, pendingHit) ELSE selectedFeatureIds
       IN  /\ selectedFeatureIds' = ids
           /\ renderers' = IF pendingHit \in FeatureIds
                           THEN updateHighlights(renderers, geoJsonLayer,
                                                 originalRendererRef, ids)
                           ELSE renderers
           /\ beforeHighlight' = IF selectedFeatureIds = <<>> /\ ids # <<>>
                                 THEN renderers[geoJsonLayer] ELSE beforeHighlight
    /\ isSelecting' = FALSE
    /\ pendingHit' = "none"
    /\ UNCHANGED <<selectionMode, originalRendererRef, geoJsonLayer, adoptionApplied,
                   clicks, oddClicks, selpc, outsideSelect>>

\* part_005 lines 330-334: the layer effect applies the adoption-status
\* renderer to the layer once its census data was injected
ApplyAdoptionRenderer ==
    /\ selpc = "mounted"
    /\ geoJsonLayer \notin adoptionApplied
    /\ renderers' = [renderers EXCEPT ![geoJsonLayer] = AdoptionRenderer(geoJsonLayer)]
    /\ adoptionApplied' = adoptionApplied \cup {geoJsonLayer}
    /\ UNCHANGED <<selectionMode, selectedFeatureIds, isSelecting, pendingHit,
                   originalRendererRef, geoJsonLayer, clicks, oddClicks, beforeHighlight,
                   selpc, outsideSelect>>

\* the prop geoJsonLayer changes to a layer created since (part_005 lines
\* 270-313), with its simple renderer or already with its adoption-status
\* renderer: the cleanup of lines 203-210 runs for the old layer, lines
\* 21-27 find the ref set, and lines 106-108 run updateHighlights
ReplaceLayer ==
    /\ selpc = "mounted"
    /\ geoJsonLayer < MaxLayers
    /\ geoJsonLayer' = geoJsonLayer + 1
    /\ \E r \in {SimpleRenderer(geoJsonLayer + 1), AdoptionRenderer(geoJsonLayer + 1)} :
           /\ renderers' =
                  updateHighlights(
                      Append(Restored(renderers, geoJsonLayer, originalRendererRef), r),
                      geoJsonLayer + 1, originalRendererRef, selectedFeatureIds)
           /\ adoptionApplied' = IF r.type = "adoption"
                                 THEN adoptionApplied \cup {geoJsonLayer + 1}
                                 ELSE adoptionApplied
           /\ beforeHighlight' = IF selectedFeatureIds # <<>> THEN r ELSE beforeHighlight
    /\ UNCHANGED <<selectionMode, selectedFeatureIds, isSelecting, pendingHit,
                   originalRendererRef, clicks, oddClicks, selpc, outsideSelect>>

\* PolygonSelection unmounts: the cleanup of lines 203-210; its state is gone
Unmount ==
    /\ selpc = "mounted"
    /\ renderers' = Restored(renderers, geoJsonLayer, originalRendererRef)
    /\ selectedFeatureIds' = <<>>
    /\ selectionMode' = FALSE
    /\ isSelecting' = FALSE
    /\ pendingHit' = "none"
    /\ oddClicks' = {}
    /\ selpc' = "unmounted"
    /\ UNCHANGED <<originalRendererRef, geoJsonLayer, adoptionApplied, clicks,
                   beforeHighlight, outsideSelect>>

SelectNext ==
    \/ ClearSelection
    \/ ToggleSelectionMode
    \/ \E target \in ClickTargets : MapClick(target)
    \/ HitTestSettles
    \/ ApplyAdoptionRenderer
    \/ ReplaceLayer
    \/ Unmount

SpecSelect == SelectInit /\ [][SelectNext]_vars

(***************************************************************************)
(* The layer effect, handleSearch and toggleLayer of ArcGISMap             *)
(* (src/unnamed/part_005 lines 270-494; src/src/components/ArcGISMap.js    *)
(* lines 245-440 are the same in what is modelled).  Layers are numbered   *)
(* in the order the effect created them; the effect removes every layer    *)
(* from the map before adding the new one, so the last one created is the  *)
(* one in the map.                                                         *)
(***************************************************************************)
MaxCreated == 4
MaxSearches == 2

\* part_005 lines 119-157: what is fetched on mount; each arrival sets a
\* state the layer effect depends on (line 436)
DataSources == {"adoption", "churches", "tracts", "zips"}

NotReady == "Layer is not ready. Please wait and try again."
StillLoading == "Layer is still loading. Please wait and try again."
InvalidInput == "Please select a search field."
Queried == "queried"

\* map.removeAll(); new GeoJSONLayer(...); map.add(geoJsonLayer) (lines
\* 271-372): neither geoJsonLayerRef nor layerLoaded is reset
LayerCreated ==
    /\ layersCreated' = layersCreated + 1
    /\ loadState' = Append(loadState, "loading")
    /\ UNCHANGED <<geoJsonLayerRef, layerLoaded>>

\* the view is ready and the layer effect has run once
MapInit ==
    /\ selectedLayer = "censusTracts"
    /\ layersCreated = 1
    /\ loadState = <<"loading">>
    /\ geoJsonLayerRef = 0
    /\ layerLoaded = FALSE
    /\ dataPending = DataSources
    /\ lastSearch = [status |-> "none", queried |-> 0, current |-> 0,
                     currentLoaded |-> FALSE]
    /\ searchCount = 0
    /\ mpc = "mounted"
    /\ NormIdle
    /\ JoinIdle
    /\ FetchIdle
    /\ ClassIdle
    /\ BesideMapIdle

\* lines 486-494, then the layer effect
ToggleLayer ==
    /\ mpc = "mounted"
    /\ layersCreated < MaxCreated
    /\ selectedLayer' = IF selectedLayer = "censusTracts" THEN "zipCodes" ELSE "censusTracts"
    /\ LayerCreated
    /\ UNCHANGED <<dataPending, lastSearch, searchCount, mpc, outsideMap>>

\* data fetched on mount arrives (lines 119-157), then the layer effect
DataArrives(source) ==
    /\ mpc = "mounted"
    /\ layersCreated < MaxCreated
    /\ source \in dataPending
    /\ dataPending' = dataPending \ {source}
    /\ LayerCreated
    /\ UNCHANGED <<selectedLayer, lastSearch, searchCount, mpc, outsideMap>>

\* the callback of geoJsonLayer.when of layer k (lines 312-369)
LayerLoads(k) ==
    /\ mpc = "mounted"
    /\ loadState[k] = "loading"
    /\ loadState' = [loadState EXCEPT ![k] = "loaded"]
    /\ geoJsonLayerRef' = k
    /\ layerLoaded' = TRUE
    /\ UNCHANGED <<selectedLayer, layersCreated, dataPending, lastSearch, searchCount, mpc,
                   outsideMap>>

\* layer k fails to load: the catch of line 370
LayerFails(k) ==
    /\ mpc = "mounted"
    /\ loadState[k] = "loading"
    /\ loadState' = [loadState EXCEPT ![k] = "failed"]
    /\ UNCHANGED <<selectedLayer, layersCreated, geoJsonLayerRef, layerLoaded, dataPending,
                   lastSearch, searchCount, mpc, outsideMap>>

\* lines 439-483: handleSearch up to the query performSearch issues
handleSearch(valid) ==
    [status |-> IF geoJsonLayerRef = 0 THEN NotReady
                ELSE IF ~layerLoaded THEN StillLoading
                ELSE IF ~valid THEN InvalidInput
                ELSE Queried,
     queried |-> IF geoJsonLayerRef # 0 /\ layerLoaded /\ valid THEN geoJsonLayerRef ELSE 0,
     current |-> layersCreated,
     currentLoaded |-> loadState[layersCreated] = "loaded"]

SubmitSearch(valid) ==
    /\ mpc = "mounted"
    /\ searchCount < MaxSearches
    /\ searchCount' = searchCount + 1
    /\ lastSearch' = handleSearch(valid)
    /\ UNCHANGED <<selectedLayer, layersCreated, loadState, geoJsonLayerRef, layerLoaded,
                   dataPending, mpc, outsideMap>>

MapNext ==
    \/ ToggleLayer
    \/ \E source \in DataSources : DataArrives(source)
    \/ \E k \in 1 .. layersCreated : LayerLoads(k)
    \/ \E k \in 1 .. layersCreated : LayerFails(k)
    \/ \E valid \in BOOLEAN : SubmitSearch(valid)

SpecMap == MapInit /\ [][MapNext]_vars

(***************************************************************************)
(* Claims about the normalizers (checked under SpecNormalize)              *)
(***************************************************************************)
\* a string of exactly w characters, all of them decimal digits
IsDigitString(v, w) ==
    /\ v.t = "string"
    /\ Len(v.s) = w
    /\ \A i \in 1 .. Len(v.s) : v.s[i] \in Digits

\* the argument is the empty string, null or undefined
EmptyInput(v) == v.t \in {"null", "undefined"} \/ (v.t = "string" /\ v.s = <<>>)

\* C1: for every raw tract identifier (string or number) normalizeTractGeoid
\* returns null or a string of exactly 11 digits, and returns null if and
\* only if the identifier is empty, null or undefined.
C1_TractCanonicalOrNullIffEmpty ==
    npc = "tract" =>
        /\ tractOut = Null \/ IsDigitString(tractOut, TractWidth)
        /\ (tractOut = Null) <=> EmptyInput(raw)

\* What the code does instead: the result is null exactly for the falsy
\* arguments, which include the number 0 and NaN.
TractNullIffFalsy ==
    npc = "tract" =>
        /\ tractOut = Null \/ IsDigitString(tractOut, TractWidth)
        /\ (tractOut = Null) <=> Falsy(raw)

\* C2: for every raw ZIP identifier (string or number) normalizeZipCode
\* returns null or a string of exactly 5 digits, and returns null if and
\* only if the identifier is empty, null or undefined.
C2_ZipCanonicalOrNullIffEmpty ==
    npc = "zip" =>
        /\ zipOut = Null \/ IsDigitString(zipOut, ZipWidth)
        /\ (zipOut = Null) <=> EmptyInput(raw)

ZipNullIffFalsy ==
    npc = "zip" =>
        /\ zipOut = Null \/ IsDigitString(zipOut, ZipWidth)
        /\ (zipOut = Null) <=> Falsy(raw)

\* The reference procedure of C3, written in closed form: the digits of r,
\* less a leading "14000", right-aligned in 11 places over zeros, or their
\* first 11 when there are 11 or more.
ReferenceTract(v) ==
    LET d == SelectSeq(JSString(v), LAMBDA c : c \in Digits)
        strip == Len(d) >= 5 /\ \A i \in 1 .. 5 : d[i] = SentinelPrefix[i]
        e == IF strip THEN [i \in 1 .. (Len(d) - 5) |-> d[i + 5]] ELSE d
        gap == 11 - Len(e)
    IN  [i \in 1 .. 11 |-> IF gap <= 0 THEN e[i]
                           ELSE IF i <= gap THEN "0" ELSE e[i - gap]]

\* C3: for every non-empty raw value normalizeTractGeoid returns what the
\* reference procedure returns (digits only, a leading "14000" dropped,
\* left-padded with zeros to 11, cut to the first 11).
C3_TractEqualsReference ==
    (npc = "tract" /\ ~EmptyInput(raw)) => tractOut = Str(ReferenceTract(raw))

\* The same for the arguments the guard lets through.
TractEqualsReferenceWhenTruthy ==
    (npc = "tract" /\ ~Falsy(raw)) => tractOut = Str(ReferenceTract(raw))

\* C4: normalizing a normalized tract identifier changes nothing.
C4_TractIdempotent ==
    (npc = "tract2" /\ IsDigitString(tractOut, TractWidth)) => tractTwice = tractOut

\* It does whenever the first result does not itself begin with "14000".
TractIdempotentUnlessSentinel ==
    (npc = "tract2" /\ IsDigitString(tractOut, TractWidth)
        /\ ~StartsWith(tractOut.s, SentinelPrefix)) => tractTwice = tractOut

(***************************************************************************)
(* Claims about the merge (SpecMerge) and the join (Spec)                  *)
(***************************************************************************)
SourceObject(src) ==
    CASE src = 1 -> populationData [] src = 2 -> acsData [] OTHER -> incomeData

SourceKeys == Keys(populationData) \cup Keys(acsData) \cup Keys(incomeData)

\* the sources that have a record for g holding field f
Providers(g, f) ==
    {src \in 1 .. 3 : g \in Keys(SourceObject(src)) /\ f \in DOMAIN SourceObject(src).at[g]}

Latest(S) == CHOOSE x \in S : \A y \in S : y <= x

ProvidedFields(g) ==
    UNION {DOMAIN SourceObject(src).at[g] : src \in {s \in 1 .. 3 : g \in Keys(SourceObject(s))}}

\* C5: in the merge a field takes the value of the latest source (population,
\* ACS profile, income) that provides it for the identifier; a source with
\* no record for the identifier adds no field and removes none.
C5_LaterSourceWins ==
    jpc = "merged" =>
        /\ Keys(mergedData) = SourceKeys
        /\ \A g \in Keys(mergedData) :
             /\ DOMAIN mergedData.at[g] = ProvidedFields(g)
             /\ \A f \in DOMAIN mergedData.at[g] :
                  mergedData.at[g][f] = SourceObject(Latest(Providers(g, f))).at[g][f]

\* a field given by population and income for an identifier ACS does not have
C5_Witness ==
    /\ jpc = "merged"
    /\ \E g \in Keys(mergedData) : \E f \in MergeFields :
         /\ Providers(g, f) = {1, 3}
         /\ g \notin Keys(acsData)
         /\ mergedData.at[g][f] = SourceMark(3)
         /\ \E f2 \in MergeFields : Providers(g, f2) = {1} /\ mergedData.at[g][f2] = SourceMark(1)

\* the canonical identifier of a raw key, as a key of the result
Canonical(key) == JSString(Normalize(kind, key))

Joinable(key) == Normalize(kind, key) # Null

PairwiseDisjointSources ==
    /\ Keys(populationData) \cap Keys(acsData) = {}
    /\ Keys(populationData) \cap Keys(incomeData) = {}
    /\ Keys(acsData) \cap Keys(incomeData) = {}

DistinctCanonicals ==
    /\ \A k \in SourceKeys : Joinable(k)
    /\ \A k1, k2 \in SourceKeys : k1 # k2 => Canonical(k1) # Canonical(k2)

SourceOf(key) == CHOOSE src \in 1 .. 3 : key \in Keys(SourceObject(src))

JoinComplete ==
    /\ Cardinality({c \in Keys(processedData) : \E k \in SourceKeys : c = Canonical(k)})
         = Cardinality(Keys(populationData)) + Cardinality(Keys(acsData))
             + Cardinality(Keys(incomeData))
    /\ \A k \in SourceKeys :
         /\ Canonical(k) \in Keys(processedData)
         /\ DOMAIN processedData.at[Canonical(k)].rec = SourceFields(SourceOf(k))

\* C6: for sources with pairwise disjoint key sets whose keys normalize to
\* distinct canonical identifiers, the result has exactly |A|+|B|+|C|
\* canonical entries, each with only the fields of the source of its key.
C6_JoinCompleteness ==
    (jpc = "done" /\ kind = "tract" /\ PairwiseDisjointSources /\ DistinctCanonicals)
        => JoinComplete

\* It holds when every canonical identifier is a fixed point of the
\* normalizer, which C4 claims and "14000..." keys refute.
JoinCompleteWhenCanonicalsStable ==
    (jpc = "done" /\ PairwiseDisjointSources /\ DistinctCanonicals
        /\ \A k \in SourceKeys : Canonical(Canonical(k)) = Canonical(k))
        => JoinComplete

\* C7: every joinable source key is in the result under its canonical
\* identifier with a record of at least one field; a key that normalizes to
\* null is not in the result; every key of the result is a source key or the
\* canonical identifier of one.
C7_JoinedKeysComeFromSources ==
    jpc = "done" =>
        /\ \A k \in SourceKeys : Joinable(k) =>
             /\ Canonical(k) \in Keys(processedData)
             /\ DOMAIN processedData.at[Canonical(k)].rec # {}
        /\ \A k \in SourceKeys : ~Joinable(k) => k \notin Keys(processedData)
        /\ \A x \in Keys(processedData) :
             \E k \in SourceKeys : Joinable(k) /\ (x = k \/ x = Canonical(k))

\* a source gave the empty key and another key whose canonical form differs
C7_Witness ==
    /\ jpc = "done"
    /\ \E k \in SourceKeys : ~Joinable(k)
    /\ \E k \in SourceKeys :
         /\ Joinable(k) /\ Canonical(k) # k
         /\ {k, Canonical(k)} \subseteq Keys(processedData)

\* C8: in the result, a raw key that differs from its canonical identifier
\* and that canonical identifier hold the same record object.
C8_RawAndCanonicalShareObject ==
    jpc = "done" =>
        \A k \in Keys(mergedData) : (Joinable(k) /\ Canonical(k) # k) =>
            /\ {k, Canonical(k)} \subseteq Keys(processedData)
            /\ processedData.at[k].ref = processedData.at[Canonical(k)].ref

\* It holds when no two keys share a canonical identifier and no key is the
\* canonical identifier of another.
RawAndCanonicalShareObjectWithoutCollision ==
    (jpc = "done"
        /\ \A k1, k2 \in Keys(mergedData) :
             (k1 # k2 /\ Joinable(k1)) => Canonical(k1) \notin {k2, Canonical(k2)})
        => \A k \in Keys(mergedData) : (Joinable(k) /\ Canonical(k) # k) =>
               /\ {k, Canonical(k)} \subseteq Keys(processedData)
               /\ processedData.at[k].ref = processedData.at[Canonical(k)].ref

\* C9: when two different raw keys have the same canonical identifier, the
\* record under that identifier holds the fields merged under both.
C9_CollidingKeysAreMerged ==
    jpc = "done" =>
        \A k1, k2 \in Keys(mergedData) :
            (k1 # k2 /\ Joinable(k1) /\ Canonical(k1) = Canonical(k2)) =>
                (DOMAIN mergedData.at[k1]) \cup (DOMAIN mergedData.at[k2])
                    \subseteq DOMAIN processedData.at[Canonical(k1)].rec

\* What the code stores there: the record of the last such key in the
\* order of Object.keys, alone.
CollidingKeysLastOneWins ==
    jpc = "done" =>
        \A c \in {Canonical(k) : k \in {x \in Keys(mergedData) : Joinable(x)}} :
            LET order == ObjectKeys(mergedData)
                writers == {i \in 1 .. Len(order) :
                              Joinable(order[i])
                                /\ c \in {order[i], Canonical(order[i])}}
            IN  processedData.at[c].ref = order[Latest(writers)]

WellShaped(src) ==
    {i \in 1 .. Len(responses[src].rows) :
        Len(responses[src].rows[i]) = Len(responses[src].hdr)}

KeyOfRow(src, i) == RowKey(kind, responses[src].hdr, responses[src].rows[i])

\* C10: in each adapter the rows whose length differs from the header's
\* contribute no entry, and every other row contributes its entry (the last
\* row of a key giving the record).
C10_MismatchedRowsSkipped ==
    jpc = "done" =>
        \A src \in 1 .. 3 :
            /\ Keys(SourceObject(src)) = {KeyOfRow(src, i) : i \in WellShaped(src)}
            /\ \A i \in WellShaped(src) :
                 SourceObject(src).at[KeyOfRow(src, i)]
                   = RowRecord(src, responses[src].hdr,
                               responses[src].rows[
                                   Latest({j \in WellShaped(src) :
                                             KeyOfRow(src, j) = KeyOfRow(src, i)})])

\* a response with a short row, a long row and a well-shaped row
C10_Witness ==
    /\ jpc = "done"
    /\ \E src \in 1 .. 3 :
         \E i, j, g \in 1 .. Len(responses[src].rows) :
             /\ Len(responses[src].rows[i]) < Len(responses[src].hdr)
             /\ Len(responses[src].rows[j]) > Len(responses[src].hdr)
             /\ WellShaped(src) = {g}
             /\ KeyOfRow(src, g) # KeyOfRow(src, j)
             /\ Keys(SourceObject(src)) = {KeyOfRow(src, g)}

(***************************************************************************)
(* Claims about one call of a fetch function (SpecFetch)                   *)
(***************************************************************************)
\* the call went through the adapters and the join
Joined ==
    /\ jpc = "done"
    /\ ~BlankKey(apiKey)
    /\ \A src \in 1 .. 3 : requests[src] = "fulfilled"
    /\ ~JoinThrows(responses)

\* the header row of a source's table has no column of one of the key names
LacksKeyColumn(src) ==
    /\ DataLength(responses[src]) > 1
    /\ \E c \in KeyColumns(kind) : IndexOf(responses[src].hdr, c) < 0

\* C11: when the header row of a source lacks a key column (state, county
\* or tract; the ZCTA column), the adapter of that source produces an empty
\* mapping, and no entry of the joined dataset holds a field of that source.
C11_MissingKeyColumnGivesEmptyMapping ==
    Joined =>
        \A src \in 1 .. 3 :
            LacksKeyColumn(src) =>
                /\ Keys(SourceObject(src)) = {}
                /\ \A g \in Keys(processedData) :
                       DOMAIN processedData.at[g].rec \cap SourceFields(src) = {}

\* the sources whose request was rejected
FailedSources == {src \in 1 .. 3 : answers[src].rejects}

\* what a source contributes: nothing when its request failed, else what its
\* adapter reads from the table the endpoint answered
Contribution(src) ==
    IF src \in FailedSources THEN EmptyObject
    ELSE Adapter(kind, src, answers[src].data)

NoNullHeader == \A src \in 1 .. 3 : ~AdapterThrows(answers[src].data)

Delivered(src) == IF answers[src].rejects THEN EmptyData ELSE answers[src].data

\* C13: the three requests are issued together before the function waits for
\* any of them; the adapters and the join run only once all three requests
\* have settled; and the result is determined by what the three endpoints
\* answered, not by the order in which the answers arrived.
C13_RequestsConcurrentJoinAfterAll ==
    /\ \A s1, s2 \in 1 .. 3 : (requests[s1] = "none") <=> (requests[s2] = "none")
    /\ jpc = "awaiting" => \A src \in 1 .. 3 : requests[src] # "none"
    /\ jpc # "done" =>
         /\ \A src \in 1 .. 3 : SourceObject(src) = EmptyObject
         /\ processedData = EmptyObject
         /\ outcome = "pending"
    /\ (jpc = "done" /\ ~BlankKey(apiKey)) =>
         /\ \A src \in 1 .. 3 : requests[src] \in {"fulfilled", "rejected"}
         /\ {arrival[i] : i \in 1 .. Len(arrival)} = 1 .. 3
         /\ responses = [src \in 1 .. 3 |-> Delivered(src)]
         /\ processedData =
                IF \E src \in 1 .. 3 : AdapterThrows(Delivered(src)) THEN EmptyObject
                ELSE processCensusData(
                         MergeAll(Adapter(kind, 1, Delivered(1)),
                                  Adapter(kind, 2, Delivered(2)),
                                  Adapter(kind, 3, Delivered(3))), kind)

\* the answers arrived in an order other than that of the requests, each
\* source holds a record, and the call has returned the join
C13_Witness ==
    /\ jpc = "done"
    /\ arrival = <<3, 1, 2>>
    /\ \A src \in 1 .. 3 : Keys(SourceObject(src)) # {}
    /\ Keys(processedData) # {}

\* C14: the promise of a fetch function is never rejected: whatever the
\* requests' outcomes and the tables' contents, a call that has returned has
\* resolved to a mapping; with a missing or blank API key it resolves to the
\* empty mapping and no request is ever issued.
C14_FetchNeverRejects ==
    /\ outcome # "rejected"
    /\ jpc = "done" =>
         /\ outcome = "resolved"
         /\ Keys(processedData) = {processedData.order[i] :
                                       i \in 1 .. Len(processedData.order)}
    /\ BlankKey(apiKey) =>
         /\ \A src \in 1 .. 3 : requests[src] = "none"
         /\ arrival = <<>>
         /\ jpc = "done" => processedData = EmptyObject

\* a request was rejected, another endpoint answered a table whose header
\* row is null, and the call has resolved
C14_Witness ==
    /\ jpc = "done"
    /\ outcome = "resolved"
    /\ ~BlankKey(apiKey)
    /\ FailedSources # {}
    /\ JoinThrows(responses)
    /\ processedData = EmptyObject

NonEmptyArgument(v) == v.t = "string" /\ v.s # <<>>

\* the stretch list[a..b] lies between commas (or the ends) and, trimmed,
\* equals the trimmed identifier
ListsAsEntry(list, id) ==
    \E a \in 1 .. (Len(list) + 1) : \E b \in (a - 1) .. Len(list) :
        /\ a = 1 \/ list[a - 1] = ","
        /\ b = Len(list) \/ list[b + 1] = ","
        /\ \A i \in a .. b : list[i] # ","
        /\ Trim(SubSeq(list, a, b)) = Trim(id)

\* C16: isTractInList(id, list) is true exactly when both arguments are
\* non-empty and some entry of the list, split on "," and trimmed, is equal
\* as a string to the trimmed id; nothing else is normalized.
C16_InListIffTrimmedEntryEqual ==
    cpc = "tested" =>
        (inList <=> (/\ NonEmptyArgument(tractId)
                     /\ NonEmptyArgument(commaSeparatedList)
                     /\ ListsAsEntry(commaSeparatedList.s, tractId.s)))

\* a match that needed both trims: the identifier and the matching entry
\* are both written with spaces around them, in a list of several entries
C16_Witness ==
    /\ cpc = "tested"
    /\ inList
    /\ Trim(tractId.s) # tractId.s
    /\ Len(Entries(commaSeparatedList.s)) > 1
    /\ \A i \in 1 .. Len(Entries(commaSeparatedList.s)) :
         Entries(commaSeparatedList.s)[i] = Trim(tractId.s) =>
             EntriesUntrimmed(commaSeparatedList.s)[i] # Trim(tractId.s)

\* the rows that pass the identifier test, and the identifier of such a row
TractRows == {i \in 1 .. Len(povertyData) : HasTract(povertyData[i])}

RowId(i) == Trim(povertyData[i]["Census Tract"].s)

\* the keys of the index that are tract entries
TractKeys == Keys(adoptionStatusMap) \ {MetaKey}

\* row i names the identifier in one of its three list columns
RowLists(i, id) ==
    \E c \in 1 .. 3 :
        /\ NonEmptyArgument(povertyData[i][ListColumns[c]])
        /\ ListsAsEntry(povertyData[i][ListColumns[c]].s, id)

SaysNotAdopted(i) ==
    povertyData[i]["Adoption Status"] =
        Str(<<"N", "o", "t", " ", "A", "d", "o", "p", "t", "e", "d">>)

PositiveRow(i) ==
    \/ /\ povertyData[i]["Adoption Status"].t = "string"
       /\ ToLowerCase(povertyData[i]["Adoption Status"].s)
              = <<"a", "d", "o", "p", "t", "e", "d">>
    \/ RowLists(i, RowId(i))

\* C18: the status of an identifier is "adopted" exactly when at least one
\* of the rows carrying it is positive, wherever that row stands among them.
C18_AdoptedIffSomeRowPositive ==
    cpc = "classified" =>
        \A id \in TractKeys :
            (adoptionStatusMap.at[id].status = "adopted")
                <=> (\E i \in TractRows : RowId(i) = id /\ PositiveRow(i))

\* an identifier with two rows, the first positive and the last not, is
\* adopted
C18_Witness ==
    /\ cpc = "classified"
    /\ \E i, j \in TractRows :
         /\ i < j
         /\ RowId(i) = RowId(j)
         /\ RowId(i) # MetaKey
         /\ PositiveRow(i)
         /\ ~PositiveRow(j)
         /\ adoptionStatusMap.at[RowId(i)].status = "adopted"

\* the identifiers of the rows: the trimmed, non-empty identifier cells
RowIdentifiers ==
    {Trim(povertyData[i]["Census Tract"].s) :
        i \in {r \in 1 .. Len(povertyData) :
                   /\ povertyData[r]["Census Tract"].t = "string"
                   /\ Trim(povertyData[r]["Census Tract"].s) # <<>>}}

Members(seq) == {seq[i] : i \in 1 .. Len(seq)}

\* the keys of the index that hold a tract entry
TractEntryKeys == {g \in Keys(adoptionStatusMap) : "status" \in DOMAIN adoptionStatusMap.at[g]}

\* C19: the index has a tract entry for an identifier exactly when it is the
\* trimmed non-empty identifier cell of some row; the all-seen set equals
\* the tract keys of the index, and the positive set is a subset of it.
C19_IndexCoversExactlySeenIdentifiers ==
    cpc = "classified" =>
        /\ TractEntryKeys = RowIdentifiers
        /\ Members(adoptionStatusMap.at[MetaKey].allCsvTracts) = TractEntryKeys
        /\ Members(adoptionStatusMap.at[MetaKey].adoptedTracts)
               \subseteq Members(adoptionStatusMap.at[MetaKey].allCsvTracts)

\* what holds: the same, for every identifier but the bookkeeping key
IndexCoversSeenIdentifiersButMeta ==
    cpc = "classified" =>
        /\ TractEntryKeys = RowIdentifiers \ {MetaKey}
        /\ Members(adoptionStatusMap.at[MetaKey].allCsvTracts) = RowIdentifiers
        /\ Members(adoptionStatusMap.at[MetaKey].adoptedTracts)
               \subseteq Members(adoptionStatusMap.at[MetaKey].allCsvTracts)

\* the row whose second-pass assignment the entry of id is: the last row
\* carrying it
ProducingRow(id) ==
    povertyData[CHOOSE i \in TractRows :
                    /\ RowId(i) = id
                    /\ \A j \in TractRows : RowId(j) = id => j <= i]

\* the entry's three list fields, in the order of ListColumns
ListFields(entry) == <<entry.churches, entry.nonProfits, entry.localBusiness>>

\* C20: each entry carries the three list-column values of the row that
\* produced it exactly, character for character, also when a list column is
\* empty.
C20_ListColumnsCarriedVerbatim ==
    cpc = "classified" =>
        \A id \in TractKeys : \A c \in 1 .. 3 :
            ListFields(adoptionStatusMap.at[id])[c] = ProducingRow(id)[ListColumns[c]]

\* C20, amended: each entry carries a list-column value of the row that
\* produced it character for character when the value is not empty; an
\* empty or missing list column is carried as "N/A".
C20_ListColumnsVerbatimOrNotAvailable ==
    cpc = "classified" =>
        \A id \in TractKeys : \A c \in 1 .. 3 :
            ListFields(adoptionStatusMap.at[id])[c] =
                IF NonEmptyArgument(ProducingRow(id)[ListColumns[c]])
                THEN ProducingRow(id)[ListColumns[c]]
                ELSE NotAvailable

\* an identifier with two rows: the entry has the last row's list with its
\* inner space, "N/A" for that row's empty column, and nothing of the first
\* row's differing lists
C20_Witness ==
    /\ cpc = "classified"
    /\ \E i, j \in TractRows :
         /\ i < j
         /\ RowId(i) = RowId(j)
         /\ RowId(i) # MetaKey
         /\ povertyData[i]["Non-Profits"] # povertyData[j]["Non-Profits"]
         /\ povertyData[j]["Non-Profits"] = Str(<<"T", "2", ",", " ", "T", "1">>)
         /\ povertyData[j]["Local Business"] = Str(<<>>)
         /\ adoptionStatusMap.at[RowId(i)].nonProfits = povertyData[j]["Non-Profits"]
         /\ adoptionStatusMap.at[RowId(i)].localBusiness = NotAvailable

(***************************************************************************)
(* Claims about calculateTotals (SpecReport)                               *)
(***************************************************************************)
\* the features whose value for the field is there, is not null and parses
\* as a number
Qualifying(field) ==
    {i \in 1 .. Len(features) :
        /\ features[i].hasAttributes
        /\ field \in DOMAIN features[i].attributes
        /\ features[i].attributes[field] # Undefined
        /\ features[i].attributes[field] # Null
        /\ ParseFloat(features[i].attributes[field]) # NaN}

RECURSIVE SumOver(_, _)
SumOver(field, S) ==
    IF S = {} THEN 0
    ELSE LET i == CHOOSE x \in S : TRUE
         IN  ParseFloat(features[i].attributes[field]).n + SumOver(field, S \ {i})

PopulationValues == [i \in 1 .. Len(features) |-> Attr(features[i], "P1_001N")]

\* C21: a feature whose value for a field is missing, null or does not parse
\* as a number adds nothing to that field's total and is not counted for it:
\* each total is the sum, each count the number, of the values that parse;
\* population values [100, 200, "N/A", 300] total 600 over a count of 3.
C21_UnparseableValuesNotCounted ==
    (tpc = "totalled" /\ Len(features) > 0) =>
        /\ \A f \in AggregateFields :
             /\ counts[f] = Cardinality(Qualifying(f))
             /\ totals[f] = SumOver(f, Qualifying(f))
        /\ PopulationValues = <<Num(100), Num(200), NotANumber, Num(300)>> =>
             /\ totals["P1_001N"] = 600
             /\ counts["P1_001N"] = 3
             /\ result["Total Population"] = Num(600)

\* the population values of the example have been totalled
C21_Witness ==
    /\ tpc = "totalled"
    /\ PopulationValues = <<Num(100), Num(200), NotANumber, Num(300)>>
    /\ counts["P1_001N"] = 3

\* C22: an aggregate field is in the result exactly when at least one
\* feature has a value for it that parses as a number; a field without such
\* a value is absent, not 0 and not null.
C22_FieldPresentIffSomeValueParses ==
    tpc = "totalled" =>
        \A f \in AggregateFields :
            (Label(f) \in DOMAIN result) <=> (Qualifying(f) # {})

\* several features, one field with values that parse (among them a zero
\* total) and one with none: the first is reported, the second absent
C22_Witness ==
    /\ tpc = "totalled"
    /\ Len(features) > 1
    /\ Qualifying("P1_001N") # {}
    /\ totals["P1_001N"] = 0
    /\ "Total Population" \in DOMAIN result
    /\ Qualifying("S1901_C01_012E") = {}
    /\ \E i \in 1 .. Len(features) : Attr(features[i], "S1901_C01_012E") = NotANumber
    /\ "Average Median Household Income" \notin DOMAIN result

\* C23: the result always carries featureCount, equal to the number of
\* features passed in, also for the empty collection and for a collection
\* without any value that parses.
C23_FeatureCountAlwaysReported ==
    tpc = "totalled" =>
        /\ "featureCount" \in DOMAIN result
        /\ result["featureCount"] = Num(Len(features))

\* what holds: featureCount is reported for every collection but the empty
\* one, whose result is the empty object
FeatureCountReportedUnlessEmpty ==
    tpc = "totalled" =>
        IF Len(features) = 0 THEN DOMAIN result = {}
        ELSE result["featureCount"] = Num(Len(features))


(***************************************************************************)
(* Claims about injectCensusDataIntoLayer and the popup content function   *)
(* it installs (checked under SpecInject)                                  *)
(***************************************************************************)
\* the identifier of layer feature i, read from the layer's identifier field
FeatureIdentifier(i) ==
    Attribute(layerFeatures[i], IdField(isZipCodeLayer, layerFields))

NonEmptyIdentifier(id) == id.t \notin {"undefined", "null"} /\ id # Str(<<>>)

NormalizedIdentifier(id) ==
    IF isZipCodeLayer THEN normalizeZipCode(id) ELSE normalizeTractGeoid(id)

\* the joined dataset has a record under the normalized form of id
HasRecordFor(id) ==
    /\ NormalizedIdentifier(id).t = "string"
    /\ NormalizedIdentifier(id).s \in Keys(layerCensusData)

\* injectCensusDataIntoLayer ran on the features the query returned
FeaturesInjected == ipc = "injected" /\ ~queryRejects

TractSpellings ==
    { Str(Geoid01001000100), Num(1001000100),
      Str(SentinelPrefix \o <<"U", "S">> \o Geoid01001000100) }

\* C24: after injectCensusDataIntoLayer, every layer feature with a
\* non-empty identifier has its raw identifier mapped to a census record
\* exactly when the joined dataset has a record under the normalized
\* identifier, and the mapped record is that very record; so the 11-digit
\* string, the number that lost its leading zero and the 14000US-prefixed
\* spelling of a tract all resolve to the record fetched for that state,
\* county and tract.
C24_RawIdentifierMappedIffDatasetHasNormalized ==
    FeaturesInjected =>
        \A i \in 1 .. Len(layerFeatures) :
            LET id == FeatureIdentifier(i)
            IN  NonEmptyIdentifier(id) =>
                    /\ MapHas(featureCensusData, id) <=> HasRecordFor(id)
                    /\ MapHas(featureCensusData, id) =>
                           featureCensusData.at[id]
                               = layerCensusData.at[NormalizedIdentifier(id).s]
                    /\ (~isZipCodeLayer /\ id \in TractSpellings
                            /\ Keys(layerCensusData) # {}) =>
                           /\ MapHas(featureCensusData, id)
                           /\ featureCensusData.at[id].ref = Geoid01001000100

\* a number that lost its leading zero and a prefixed GEOID were both
\* matched, in a dataset that also holds a key colliding with theirs
C24_Witness ==
    /\ FeaturesInjected
    /\ ~isZipCodeLayer
    /\ Len(layerFeatures) = 2
    /\ FeatureIdentifier(1) = Num(1001000100)
    /\ FeatureIdentifier(2) = Str(SentinelPrefix \o <<"U", "S">> \o Geoid01001000100)
    /\ MapHas(featureCensusData, FeatureIdentifier(1))
    /\ MapHas(featureCensusData, FeatureIdentifier(2))
    /\ <<"1", "0", "0", "1", "0", "0", "0", "1", "0", "0">> \in Keys(layerCensusData)
    /\ returned = 2

\* the last invocation of the installed content function returned content
\* for a feature whose identifier is mapped to a census record
PopupOfMatchedFeature ==
    /\ popup # <<>>
    /\ ~popup.threw
    /\ MapHas(featureCensusData,
              Attribute(popup.before, IdField(isZipCodeLayer, layerFields)))

PopupRecord ==
    featureCensusData.at[Attribute(popup.before, IdField(isZipCodeLayer, layerFields))].rec

\* C25: once a feature is matched, every invocation of the layer's popup
\* content function for it, the first one included, returns content
\* computed from attributes that already carry the feature's census values.
C25_PopupContentCarriesCensusValues ==
    PopupOfMatchedFeature =>
        popup.content = ContentOf(Spread(popup.before, PopupRecord))

\* C26: invoking the installed popup content function leaves the attributes
\* of the feature passed to it unchanged.
C26_PopupLeavesAttributesUnchanged ==
    (popup # <<>>) => graphics[popup.feature] = popup.before

(***************************************************************************)
(* Claims about performSearch (checked under SpecSearch)                   *)
(***************************************************************************)
SearchMessages == {LayerNotReady, NoMatch, NoPopup, SearchError}

SearchResolved == searchPromise = "resolved"

\* C27: performSearch never rejects: it resolves to {success: true} or to
\* {success: false, message}, to success only when the query returned at
\* least one feature, and when the layer is missing or no feature matches
\* it resolves to a failure without moving the view or opening a popup.
C27_SearchResolvesToSuccessOrFailure ==
    /\ searchPromise # "rejected"
    /\ SearchResolved =>
           \/ resolution = Success
           \/ \E m \in SearchMessages : resolution = Failure(m)
    /\ (SearchResolved /\ resolution.success) =>
           /\ queriesIssued = 1
           /\ queryAnswer.settles = "features"
           /\ queryAnswer.count >= 1
    /\ (SearchResolved /\ (~layerGiven \/ queryAnswer = Answer("features", 0))) =>
           /\ ~resolution.success
           /\ ~viewMoved
           /\ ~popupOpened

\* the query rejected and the promise resolved to a failure
C27_Witness ==
    /\ SearchResolved
    /\ queriesIssued = 1
    /\ queryAnswer = Answer("rejects", 0)
    /\ resolution = Failure(SearchError)

(***************************************************************************)
(* Claims about PolygonSelection (checked under SpecSelect)                *)
(***************************************************************************)
NoDuplicates(ids) == \A i, j \in 1 .. Len(ids) : ids[i] = ids[j] => i = j

\* C28: after any sequence of feature clicks, clears and selection-mode
\* toggles, selectedFeatureIds holds no identifier twice; once every click
\* has been handled an identifier is selected exactly when it was clicked
\* an odd number of times in selection mode since the last clear (clicks
\* outside selection mode count for nothing); and nothing is selected
\* while selection mode is off.
C28_SelectionIsOddClicksSinceClear ==
    (selpc = "mounted") =>
        /\ NoDuplicates(selectedFeatureIds)
        /\ (pendingHit = "none") =>
               \A id \in FeatureIds : Includes(selectedFeatureIds, id) <=> id \in oddClicks
        /\ ~selectionMode => selectedFeatureIds = <<>>

\* selectedFeatureIds never holds an identifier twice
SelectionHasNoDuplicates == NoDuplicates(selectedFeatureIds)

\* C29: whenever the selection becomes empty (clear, selection mode off,
\* last feature deselected, unmount), the renderer of the layer is the one
\* that was in effect immediately before the first feature was highlighted.
C29_EmptySelectionRestoresRendererBeforeHighlight ==
    [][(selectedFeatureIds # <<>> /\ selectedFeatureIds' = <<>>)
           => renderers'[geoJsonLayer'] = beforeHighlight]_vars

(***************************************************************************)
(* Claims about the layer effect and handleSearch of ArcGISMap (checked    *)
(* under SpecMap)                                                          *)
(***************************************************************************)
\* C30: for every interleaving of layer toggles, data-driven layer
\* re-creations and load completions, handleSearch issues a query only
\* against the layer created last (the one in the map) and only once that
\* layer has loaded; while that layer is still loading it reports "Layer
\* is still loading" or "Layer is not ready" and issues no query.
C30_SearchQueriesOnlyLoadedCurrentLayer ==
    (lastSearch.status # "none") =>
        /\ (lastSearch.queried # 0) =>
               /\ lastSearch.queried = lastSearch.current
               /\ lastSearch.currentLoaded
        /\ ~lastSearch.currentLoaded =>
               /\ lastSearch.status \in {NotReady, StillLoading}
               /\ lastSearch.queried = 0
====
